---- MODULE Spec2Model ----
(***************************************************************************)
(* Model of the report generator of franja (utils/excel_generator.py):     *)
(* the tabular formatter and renderer (_create_styled_workbook,            *)
(* _apply_data_formatting), the metadata sheet, the file naming, the       *)
(* target-path probe and the save, and the output directory probe run by   *)
(* the constructor; and of the report runs that the main window            *)
(* (ui/main_window.py) starts in worker threads.                           *)
(*                                                                         *)
(* Python strings that the code inspects character by character (column    *)
(* names, cell texts) are sequences of one-character strings.  File names  *)
(* and request dates, which the code only concatenates and compares, are   *)
(* TLA+ strings.                                                           *)
(***************************************************************************)
EXTENDS Integers, Sequences, FiniteSets, TLC

(***************************************************************************)
(* Bounds of the model.                                                    *)
(***************************************************************************)
MaxRows == 2
MaxDateLen == 2
MaxRuns == 2

(***************************************************************************)
(* Python values.  A value is a record [k, v]: k is the Python type.       *)
(*   none   None                                                           *)
(*   int    int, v the number                                              *)
(*   float  float, v the number in tenths (12345 is 1234.5)                *)
(*   int64  numpy.int64                                                    *)
(*   nan    float('nan')                                                   *)
(*   str    str, v the characters                                          *)
(*   date   datetime.date, v = <<year, month, day>>                        *)
(*   obj    a value openpyxl cannot store (dict, list)                     *)
(*   ts     pandas Timestamp, v = <<year, month, day>>                     *)
(*   nat    pandas NaT                                                     *)
(***************************************************************************)
None == [k |-> "none", v |-> 0]
NaN == [k |-> "nan", v |-> 0]
NaT == [k |-> "nat", v |-> 0]
PyInt(n) == [k |-> "int", v |-> n]
PyFloat(tenths) == [k |-> "float", v |-> tenths]
PyStr(chars) == [k |-> "str", v |-> chars]
PyDate(y, m, d) == [k |-> "date", v |-> <<y, m, d>>]
PyObj == [k |-> "obj", v |-> 0]

DigitChars == <<"0", "1", "2", "3", "4", "5", "6", "7", "8", "9">>
UpperChars == <<"A", "B", "C", "D", "E", "F", "G", "H", "I", "J", "K", "L", "M",
                "N", "O", "P", "Q", "R", "S", "T", "U", "V", "W", "X", "Y", "Z">>
LowerChars == <<"a", "b", "c", "d", "e", "f", "g", "h", "i", "j", "k", "l", "m",
                "n", "o", "p", "q", "r", "s", "t", "u", "v", "w", "x", "y", "z">>

IsDigit(c) == \E i \in 1..Len(DigitChars) : DigitChars[i] = c
DigitVal(c) == (CHOOSE i \in 1..Len(DigitChars) : DigitChars[i] = c) - 1

\* str.lower()
LowerChar(c) ==
    IF \E i \in 1..Len(UpperChars) : UpperChars[i] = c
    THEN LowerChars[CHOOSE i \in 1..Len(UpperChars) : UpperChars[i] = c]
    ELSE c
Lower(s) == [i \in 1..Len(s) |-> LowerChar(s[i])]

\* sub in s
Contains(sub, s) ==
    \E i \in 0..(Len(s) - Len(sub)) :
        \A j \in 1..Len(sub) : s[i + j] = sub[j]

\* str(n) of a non-negative int
RECURSIVE NatStr(_)
NatStr(n) == IF n < 10 THEN <<DigitChars[n + 1]>>
             ELSE NatStr(n \div 10) \o <<DigitChars[(n % 10) + 1]>>
IntStr(n) == IF n < 0 THEN <<"-">> \o NatStr(0 - n) ELSE NatStr(n)
\* n as exactly w digits, zero padded (%d, %m, %Y of strftime)
RECURSIVE PadStr(_, _)
PadStr(n, w) == IF w = 0 THEN <<>>
                ELSE PadStr(n \div 10, w - 1) \o <<DigitChars[(n % 10) + 1]>>
FloatStr(t) ==
    LET a == IF t < 0 THEN 0 - t ELSE t
    IN  (IF t < 0 THEN <<"-">> ELSE <<>>) \o NatStr(a \div 10) \o <<".">>
            \o <<DigitChars[(a % 10) + 1]>>

\* str(value)
Str(x) ==
    CASE x.k = "none" -> <<"N", "o", "n", "e">>
      [] x.k \in {"int", "int64"} -> IntStr(x.v)
      [] x.k = "float" -> FloatStr(x.v)
      [] x.k = "nan" -> <<"n", "a", "n">>
      [] x.k = "str" -> x.v
      [] x.k = "nat" -> <<"N", "a", "T">>
      [] x.k = "obj" -> <<"{", "}">>
      [] OTHER -> PadStr(x.v[1], 4) \o <<"-">> \o PadStr(x.v[2], 2) \o <<"-">>
                    \o PadStr(x.v[3], 2)

\* bool(value)
Truthy(x) ==
    CASE x.k = "none" -> FALSE
      [] x.k \in {"int", "int64", "float"} -> x.v # 0
      [] x.k = "str" -> x.v # <<>>
      [] OTHER -> TRUE

\* isinstance(value, (int, float))
IsIntOrFloat(x) == x.k \in {"int", "float", "nan"}

(***************************************************************************)
(* pandas, as _create_styled_workbook uses it.                             *)
(***************************************************************************)
\* The dates a datetime64[ns] Timestamp can hold, as year*10000+month*100+day.
TsMinKey == 16770922
TsMaxKey == 22620411

DateKey(ymd) == ymd[1] * 10000 + ymd[2] * 100 + ymd[3]
IsLeap(y) == (y % 4 = 0 /\ y % 100 # 0) \/ y % 400 = 0
DaysIn(y, m) ==
    IF m = 2 THEN (IF IsLeap(y) THEN 29 ELSE 28)
    ELSE IF m \in {4, 6, 9, 11} THEN 30 ELSE 31

\* A string of the shape YYYY-MM-DD.
IsoShape(s) ==
    /\ Len(s) = 10
    /\ s[5] = "-" /\ s[8] = "-"
    /\ \A i \in {1, 2, 3, 4, 6, 7, 9, 10} : IsDigit(s[i])
IsoFields(s) ==
    << DigitVal(s[1]) * 1000 + DigitVal(s[2]) * 100 + DigitVal(s[3]) * 10 + DigitVal(s[4]),
       DigitVal(s[6]) * 10 + DigitVal(s[7]),
       DigitVal(s[9]) * 10 + DigitVal(s[10]) >>
ValidYmd(ymd) ==
    /\ ymd[1] >= 1
    /\ ymd[2] \in 1..12
    /\ ymd[3] >= 1 /\ ymd[3] <= DaysIn(ymd[1], ymd[2])

\* A calendar date as a Timestamp: NaT outside the nanosecond range.
ToTimestamp(ymd) ==
    IF DateKey(ymd) >= TsMinKey /\ DateKey(ymd) <= TsMaxKey
    THEN [k |-> "ts", v |-> ymd]
    ELSE NaT

\* pd.to_datetime(x, errors='coerce') of one element.  Strings are the ISO
\* dates and the texts that no date parser accepts; numbers count nanoseconds
\* from 1970-01-01.
ToDatetime(x) ==
    CASE x.k = "str" ->
            IF IsoShape(x.v) /\ ValidYmd(IsoFields(x.v))
            THEN ToTimestamp(IsoFields(x.v))
            ELSE NaT
      [] x.k = "date" -> ToTimestamp(x.v)
      [] x.k \in {"int", "float"} -> [k |-> "ts", v |-> <<1970, 1, 1>>]
      [] OTHER -> NaT

\* Series.dt.strftime('%d/%m/%Y') of one element: NaT gives NaN.
Strftime(t) ==
    IF t.k = "ts"
    THEN PyStr(PadStr(t.v[3], 2) \o <<"/">> \o PadStr(t.v[2], 2) \o <<"/">>
                 \o PadStr(t.v[1], 4))
    ELSE NaN

\* 'fecha' in col.lower()
IsDateColumn(col) == Contains(<<"f", "e", "c", "h", "a">>, Lower(col))

\* The dtype pandas infers for column j of a list of tuples.
InferDtype(data, j) ==
    LET kinds == {data[i][j].k : i \in 1..Len(data)}
    IN  IF kinds = {} THEN "object"
        ELSE IF kinds = {"int"} THEN "int64"
        ELSE IF kinds \subseteq {"int", "float", "none"} /\ kinds # {"none"} THEN "float64"
        ELSE "object"

\* One element stored under a dtype: float64 turns ints into floats and None
\* into NaN.
Coerce(x, dtype) ==
    IF dtype = "float64"
    THEN (CASE x.k = "int" -> PyFloat(x.v * 10)
            [] x.k = "none" -> NaN
            [] OTHER -> x)
    ELSE x

\* pd.DataFrame(data, columns=columns)
DataFrame(data, columns) ==
    LET dts == [j \in 1..Len(columns) |-> InferDtype(data, j)]
    IN  [columns |-> columns,
         dtypes |-> dts,
         rows |-> [i \in 1..Len(data) |->
                    [j \in 1..Len(columns) |-> Coerce(data[i][j], dts[j])]]]

\* df[col] = pd.to_datetime(df[col], errors='coerce').dt.strftime('%d/%m/%Y')
\* for every column whose name contains 'fecha'.
FormatDates(df) ==
    [df EXCEPT
        !.dtypes = [j \in 1..Len(df.columns) |->
                      IF IsDateColumn(df.columns[j]) THEN "object" ELSE df.dtypes[j]],
        !.rows = [i \in 1..Len(df.rows) |->
                    [j \in 1..Len(df.columns) |->
                        IF IsDateColumn(df.columns[j])
                        THEN Strftime(ToDatetime(df.rows[i][j]))
                        ELSE df.rows[i][j]]]]

\* The formatting half of _create_styled_workbook.
FormatFrame(data, columns) == FormatDates(DataFrame(data, columns))

\* df.values: one array for the whole frame, of the common dtype.
CommonDtype(dtypes) ==
    IF \A j \in 1..Len(dtypes) : dtypes[j] = "int64" THEN "int64"
    ELSE IF \A j \in 1..Len(dtypes) : dtypes[j] \in {"int64", "float64"} THEN "float64"
    ELSE "object"
ArrayElement(x, common) ==
    CASE common = "int64" -> [k |-> "int64", v |-> x.v]
      [] common = "float64" /\ x.k = "int" -> PyFloat(x.v * 10)
      [] OTHER -> x
DfValues(df) ==
    [i \in 1..Len(df.rows) |->
        [j \in 1..Len(df.columns) |-> ArrayElement(df.rows[i][j], CommonDtype(df.dtypes))]]

(***************************************************************************)
(* openpyxl worksheets.  A cell is a record of its value and its style; a  *)
(* sheet is its title, its rows of cells and its column widths; a workbook *)
(* is a sequence of sheets.                                                *)
(***************************************************************************)
\* ws.cell(row, column) after cell.value = x, with the data type openpyxl binds
\* to the value.
NewCell(x) ==
    [value |-> x,
     data_type |-> CASE x.k = "str" -> "s" [] x.k = "date" -> "d" [] OTHER -> "n",
     number_format |-> IF x.k = "date" THEN "yyyy-mm-dd" ELSE "General",
     font |-> "default",
     fill |-> "none",
     alignment |-> "default",
     border |-> "none"]

\* The cell written for one element of df.values (lines 74-80).
DataCell(col, x) ==
    IF IsDateColumn(col)
    THEN [NewCell(PyStr(IF Truthy(x) /\ Str(x) # <<"N", "a", "T">> THEN Str(x) ELSE <<>>))
            EXCEPT !.data_type = "s"]
    ELSE NewCell(x)

\* Header styling (lines 83-99).
HeaderCell(col) ==
    [NewCell(PyStr(col)) EXCEPT !.font = "bold_white", !.fill = "366092",
                                !.alignment = "center_center", !.border = "thin"]

MaxOver(S) == IF S = {} THEN 0 ELSE CHOOSE m \in S : \A n \in S : n <= m

\* A renderer that sets no upper limit on the width.
ColumnWidthUnlimited(cells, j) ==
    LET max_length == MaxOver({Len(Str(cells[i][j].value)) : i \in 1..Len(cells)})
    IN  IF max_length + 2 >= 12 THEN max_length + 2 ELSE 12
\* Width of column j (lines 102-116): the longest str(cell.value), header
\* included, plus 2, kept within 12..50.
ColumnWidth(cells, j) ==
    LET max_length == MaxOver({Len(Str(cells[i][j].value)) : i \in 1..Len(cells)})
        at_least == IF max_length + 2 >= 12 THEN max_length + 2 ELSE 12
    IN  IF at_least <= 50 THEN at_least ELSE 50

\* _apply_data_formatting on one data cell of a column.
FormatCell(col, c) ==
    IF IsDateColumn(col)
    THEN (IF Truthy(c.value) /\ Str(c.value) # <<"N", "a", "T">>
          THEN [c EXCEPT !.value = PyStr(Str(c.value)), !.data_type = "s",
                         !.number_format = "@"]
          ELSE c)
    ELSE IF \/ Contains(<<"v", "a", "l", "o", "r">>, Lower(col))
            \/ Contains(<<"p", "r", "e", "c", "i", "o">>, Lower(col))
    THEN (IF Truthy(c.value) /\ IsIntOrFloat(c.value)
          THEN [c EXCEPT !.number_format = "#,##0.00"]
          ELSE c)
    ELSE IF Lower(col) \in {<<"n", "a", "t", "u", "r", "a", "l", "e", "z", "a", "_",
                              "c", "u", "e", "n", "t", "a">>,
                            <<"t", "i", "p", "o", "_", "e", "m", "p", "r", "e", "s", "a">>}
    THEN [c EXCEPT !.alignment = "center"]
    ELSE c

ApplyDataFormatting(cells, columns) ==
    [i \in 1..Len(cells) |->
        [j \in 1..Len(columns) |->
            IF i = 1 THEN cells[i][j] ELSE FormatCell(columns[j], cells[i][j])]]

\* A renderer that fills the sheet from the last row of the array to the first.
SheetRowOrderReversed(values) == [i \in 1..Len(values) |-> values[Len(values) + 1 - i]]
\* The rows of the array in the order the sheet is filled (enumerate(df.values, 2)).
SheetRowOrder(values) == values

\* A renderer that refuses a frame without rows.
RenderableNonEmpty(df) ==
    /\ Len(df.rows) > 0
    /\ \A i \in 1..Len(df.rows) : \A j \in 1..Len(df.columns) :
          IsDateColumn(df.columns[j]) \/ df.rows[i][j].k # "obj"
\* Whether every value of the array can be written: cell.value = x raises
\* for a value openpyxl cannot store (line 80).
Renderable(df) ==
    \A i \in 1..Len(df.rows) : \A j \in 1..Len(df.columns) :
        IsDateColumn(df.columns[j]) \/ df.rows[i][j].k # "obj"

\* The rendering half of _create_styled_workbook (lines 63-121): the sheet for
\* a formatted frame.
RenderSheet(df, columns, sheet_name) ==
    LET values == SheetRowOrder(DfValues(df))
        raw == <<[j \in 1..Len(columns) |-> HeaderCell(columns[j])]>>
                 \o [i \in 1..Len(values) |->
                        [j \in 1..Len(columns) |-> DataCell(columns[j], values[i][j])]]
        bordered == [i \in 1..Len(raw) |->
                        [j \in 1..Len(columns) |-> [raw[i][j] EXCEPT !.border = "thin"]]]
    IN  [title |-> sheet_name,
         cells |-> ApplyDataFormatting(bordered, columns),
         widths |-> [j \in 1..Len(columns) |-> ColumnWidth(bordered, j)]]

\* _create_styled_workbook
CreateStyledWorkbook(data, columns, sheet_name) ==
    <<RenderSheet(FormatFrame(data, columns), columns, sheet_name)>>

\* A generator that counts the header row among the records.
MetadataSheetCountingHeader(report_type, now, start_date, end_date, record_count) ==
    LET rows == << <<"Tipo de Reporte", report_type>>,
                   <<"Fecha de Generacion", now>>,
                   <<"Fecha Inicio", start_date>>,
                   <<"Fecha Fin", end_date>>,
                   <<"Total de Registros", record_count + 1>>,
                   <<"Sistema", "Extractor de Datos Odoo 17">>,
                   <<"Version", "1.0">> >>
    IN  [title |-> "Informacion del Reporte",
         cells |-> [i \in 1..Len(rows) |->
                      << [key |-> rows[i][1], font |-> "bold", fill |-> "E2E2E2"],
                         [val |-> rows[i][2], font |-> "default", fill |-> "none"] >>],
         widths |-> <<25, 30>>]
\* _add_metadata_sheet: the sheet created at index 0 of the workbook.
MetadataSheet(report_type, now, start_date, end_date, record_count) ==
    LET rows == << <<"Tipo de Reporte", report_type>>,
                   <<"Fecha de Generacion", now>>,
                   <<"Fecha Inicio", start_date>>,
                   <<"Fecha Fin", end_date>>,
                   <<"Total de Registros", record_count>>,
                   <<"Sistema", "Extractor de Datos Odoo 17">>,
                   <<"Version", "1.0">> >>
    IN  [title |-> "Informacion del Reporte",
         cells |-> [i \in 1..Len(rows) |->
                      << [key |-> rows[i][1], font |-> "bold", fill |-> "E2E2E2"],
                         [val |-> rows[i][2], font |-> "default", fill |-> "none"] >>],
         widths |-> <<25, 30>>]
\* A generator that creates the metadata sheet without an index, after the
\* sheets the workbook has.
AddMetadataSheetLast(wb, report_type, now, start_date, end_date, record_count) ==
    wb \o <<MetadataSheet(report_type, now, start_date, end_date, record_count)>>
AddMetadataSheet(wb, report_type, now, start_date, end_date, record_count) ==
    <<MetadataSheet(report_type, now, start_date, end_date, record_count)>> \o wb

(***************************************************************************)
(* State.                                                                  *)
(*   call, ret   one call of a function of the generator and its result    *)
(*   pc          where each caller is: constructing its generator, inside  *)
(*               one generate_*_report call, or finished                   *)
(*   req         the arguments of each caller's generate_*_report call     *)
(*   local       the local variables of the call (file_path, df, wb)       *)
(*   outcome     what the constructor or the call returned or raised       *)
(*   hist        what happened during the call: the stages executed, the   *)
(*               files as they were when the call began, whether the probe *)
(*               found the target held by another process, how many times  *)
(*               the probe and the save were executed                      *)
(*   fs          the files of the output directory: path -> contents       *)
(*   dir         the output directory: missing, uncreatable, writable or   *)
(*               readonly                                                  *)
(*   locked      the files another process holds open exclusively          *)
(*   disk_full   whether writes fail for lack of space                     *)
(*   win         the main window: operation_running, its buttons, the      *)
(*               callbacks queued for the main loop, and the report runs   *)
(*               its worker threads make                                   *)
(***************************************************************************)
VARIABLES call, ret, pc, req, local, outcome, hist, fs, dir, locked, disk_full, win

vars == <<call, ret, pc, req, local, outcome, hist, fs, dir, locked, disk_full, win>>
callVars == <<call, ret>>
genVars == <<pc, req, local, outcome, hist, fs, dir, locked, disk_full>>

Procs == {1, 2}

Pending == [state |-> "pending", value |-> <<>>]
Returned(x) == [state |-> "returned", value |-> x]
Raised(e) == [state |-> "raised", value |-> e]

(***************************************************************************)
(* File names and paths.                                                   *)
(***************************************************************************)
Kinds4 == {"invoices", "partners", "credit_notes", "combined"}
Label(kind) ==
    CASE kind = "invoices" -> "facturas"
      [] kind = "partners" -> "terceros"
      [] kind = "credit_notes" -> "notas_credito"
      [] OTHER -> "reporte_completo"
SheetName(kind) ==
    CASE kind = "invoices" -> "Facturas"
      [] kind = "partners" -> "Terceros"
      [] OTHER -> "Notas de Credito"
ReportType(kind) ==
    CASE kind = "invoices" -> "Facturas Report"
      [] kind = "partners" -> "Terceros Report"
      [] kind = "credit_notes" -> "Credit Notes Report"
      [] OTHER -> "Combined Report"

\* A generator that separates the two dates with the character the dates
\* themselves are written with.
FileNameHyphen(kind, start_date, end_date) ==
    IF start_date = end_date
    THEN Label(kind) \o "_" \o start_date \o ".xlsx"
    ELSE Label(kind) \o "_" \o start_date \o "-" \o end_date \o ".xlsx"
\* A generator that always names the file after both dates.
FileNameBothDates(kind, start_date, end_date) ==
    Label(kind) \o "_" \o start_date \o "_" \o end_date \o ".xlsx"
\* The "Create filename" block of every generate_*_report.
FileName(kind, start_date, end_date) ==
    IF start_date = end_date
    THEN Label(kind) \o "_" \o start_date \o ".xlsx"
    ELSE Label(kind) \o "_" \o start_date \o "_" \o end_date \o ".xlsx"

\* os.path.join(self.output_directory, filename)
PathJoin(directory, filename) == directory \o "/" \o filename
OutDir == "out"
TestFile == PathJoin(OutDir, "test_write.tmp")

(***************************************************************************)
(* The files of the output directory.                                      *)
(***************************************************************************)
NoFiles == [f \in {} |-> <<>>]
Exists(files, path) == path \in DOMAIN files
WriteFile(files, path, contents) ==
    [f \in DOMAIN files \cup {path} |-> IF f = path THEN contents ELSE files[f]]
RemoveFile(files, path) == [f \in DOMAIN files \ {path} |-> files[f]]
\* What is at a path: the contents, or that there is no file.
FileAt(files, path) ==
    IF Exists(files, path) THEN [exists |-> TRUE, contents |-> files[path]]
    ELSE [exists |-> FALSE, contents |-> <<>>]
OldContents == [saved |-> "earlier", sheets |-> <<>>]
Complete(workbook) == [saved |-> "complete", sheets |-> workbook]
\* The archive left by a save that stopped after opening the file for writing.
Truncated == [saved |-> "truncated", sheets |-> <<>>]

(***************************************************************************)
(* One caller: ExcelReportGenerator(output_directory), then one            *)
(* generate_*_report call.                                                 *)
(***************************************************************************)
NoLocal == [file_path |-> "", df |-> <<>>, wb |-> <<>>, sheet |-> <<>>, part |-> "none"]
NoHist == [trace |-> <<>>, fs_before |-> NoFiles, probe_locked |-> FALSE,
           probes |-> 0, saves |-> 0, dir_found |-> "unseen", fs_found |-> NoFiles]
NoReq == [kind |-> "none", start_date |-> "", end_date |-> "", data |-> <<>>,
          columns |-> <<>>, data2 |-> <<>>, columns2 |-> <<>>]

GenUnused ==
    /\ pc = [p \in Procs |-> "off"]
    /\ req = [p \in Procs |-> NoReq]
    /\ local = [p \in Procs |-> NoLocal]
    /\ outcome = [p \in Procs |-> Pending]
    /\ hist = [p \in Procs |-> NoHist]
    /\ fs = NoFiles
    /\ dir = "writable"
    /\ locked = {}
    /\ disk_full = FALSE

Executed(h, p, stage) ==
    [h EXCEPT ![p].trace =
        IF @ # <<>> /\ @[Len(@)] = stage THEN @ ELSE Append(@, stage)]
Goto(p, label) == pc' = [pc EXCEPT ![p] = label]

\* A constructor that does not validate its output directory.
CtorCheckDirSkipped(p) ==
    /\ pc[p] = "new"
    /\ Goto(p, "idle")
    /\ UNCHANGED <<callVars, win, req, local, outcome, hist, fs, dir, locked, disk_full>>
\* _validate_output_directory, line 27: os.path.exists(self.output_directory)
CtorCheckDir(p) ==
    /\ pc[p] = "new"
    /\ Goto(p, IF dir \in {"missing", "uncreatable"} THEN "makedirs" ELSE "write_test")
    /\ hist' = [hist EXCEPT ![p].dir_found = dir, ![p].fs_found = fs]
    /\ UNCHANGED <<callVars, win, req, local, outcome, fs, dir, locked, disk_full>>

\* line 28: os.makedirs.  It raises when the directory cannot be created and
\* when it exists by now.
CtorMakedirs(p) ==
    /\ pc[p] = "makedirs"
    /\ IF dir = "missing"
       THEN /\ dir' = "writable"
            /\ Goto(p, "write_test")
            /\ UNCHANGED outcome
       ELSE /\ Goto(p, "no_generator")
            /\ outcome' = [outcome EXCEPT ![p] =
                  Raised(IF dir = "uncreatable" THEN "No write permission in directory"
                         ELSE "Cannot access output directory")]
            /\ UNCHANGED dir
    /\ UNCHANGED <<callVars, win, req, local, hist, fs, locked, disk_full>>

\* lines 31-33: the with-block that writes test_write.tmp.
CtorWriteTest(p) ==
    /\ pc[p] = "write_test"
    /\ IF dir = "readonly"
       THEN /\ Goto(p, "no_generator")
            /\ outcome' = [outcome EXCEPT ![p] = Raised("No write permission in directory")]
            /\ UNCHANGED fs
       ELSE IF disk_full
       THEN /\ Goto(p, "no_generator")
            /\ outcome' = [outcome EXCEPT ![p] = Raised("Cannot access output directory")]
            /\ fs' = WriteFile(fs, TestFile, "")
       ELSE /\ Goto(p, "remove_test")
            /\ fs' = WriteFile(fs, TestFile, "test")
            /\ UNCHANGED outcome
    /\ UNCHANGED <<callVars, win, req, local, hist, dir, locked, disk_full>>

\* line 34: os.remove(test_file).  It raises when the file is gone.
CtorRemoveTest(p) ==
    /\ pc[p] = "remove_test"
    /\ IF Exists(fs, TestFile)
       THEN /\ fs' = RemoveFile(fs, TestFile)
            /\ Goto(p, "idle")
            /\ UNCHANGED outcome
       ELSE /\ Goto(p, "no_generator")
            /\ outcome' = [outcome EXCEPT ![p] = Raised("Cannot access output directory")]
            /\ UNCHANGED fs
    /\ UNCHANGED <<callVars, win, req, local, hist, dir, locked, disk_full>>

\* A generator whose except clause logs the error and returns the path.
FailSwallowed(h, p, stage, message) ==
    /\ Goto(p, "done")
    /\ outcome' = [outcome EXCEPT ![p] = Returned(local[p].file_path)]
    /\ hist' = [Executed(h, p, stage) EXCEPT ![p].trace = Append(@, "Done")]
\* The raise of a generate_*_report call: the except clause logs and re-raises.
Fail(h, p, stage, message) ==
    /\ Goto(p, "failed")
    /\ outcome' = [outcome EXCEPT ![p] = Raised(message)]
    /\ hist' = [Executed(h, p, stage) EXCEPT ![p].trace = Append(@, "Failed")]

\* A generator that probes the target path after the workbook is built.
AfterProbeLast(kind, at, inv_rows, part_rows, part) ==
    CASE at = "idle" -> IF kind = "combined" THEN "metadata" ELSE "format"
      [] at = "probe" -> "save"
      [] at = "format" -> "render"
      [] at = "render" -> IF kind = "combined" THEN "add_sheet" ELSE "metadata"
      [] at = "metadata" ->
            IF kind # "combined" THEN "probe"
            ELSE IF inv_rows > 0 \/ part_rows > 0 THEN "format" ELSE "probe"
      [] at = "add_sheet" -> IF part = "invoices" /\ part_rows > 0 THEN "format" ELSE "probe"
      [] OTHER -> "done"
\* The order of the statements of generate_*_report: the label after `at`.
After(kind, at, inv_rows, part_rows, part) ==
    CASE at = "idle" -> "probe"
      [] at = "probe" -> IF kind = "combined" THEN "metadata" ELSE "format"
      [] at = "format" -> "render"
      [] at = "render" -> IF kind = "combined" THEN "add_sheet" ELSE "metadata"
      [] at = "metadata" ->
            IF kind # "combined" THEN "save"
            ELSE IF inv_rows > 0 \/ part_rows > 0 THEN "format" ELSE "save"
      [] at = "add_sheet" -> IF part = "invoices" /\ part_rows > 0 THEN "format" ELSE "save"
      [] OTHER -> "done"
Then(p, at) ==
    Goto(p, After(req[p].kind, at, Len(req[p].data), Len(req[p].data2), local[p].part))

\* Entry of generate_*_report: the file name and the path (lines 172-178).
GenCall(p) ==
    /\ pc[p] = "idle"
    /\ local' = [local EXCEPT ![p].file_path =
                    PathJoin(OutDir, FileName(req[p].kind, req[p].start_date, req[p].end_date))]
    /\ hist' = [Executed(hist, p, "Idle") EXCEPT ![p].fs_before = fs]
    /\ Then(p, "idle")
    /\ UNCHANGED <<callVars, win, req, outcome, fs, dir, locked, disk_full>>

\* A probe that does not try to open the file.
CheckFileAvailabilityExistsOnly(files, held, file_path) == TRUE
\* _check_file_availability: whether the file, if it exists, opens in 'r+' mode.
CheckFileAvailability(files, held, file_path) ==
    ~(Exists(files, file_path) /\ file_path \in held)

\* self._check_file_availability(file_path)
GenProbe(p) ==
    /\ pc[p] = "probe"
    /\ LET seen == [hist EXCEPT ![p].probe_locked =
                       Exists(fs, local[p].file_path) /\ local[p].file_path \in locked,
                                ![p].probes = @ + 1]
       IN  IF CheckFileAvailability(fs, locked, local[p].file_path)
           THEN /\ Then(p, "probe")
                /\ hist' = Executed(seen, p, "WriteProbing")
                /\ UNCHANGED outcome
           ELSE Fail(seen, p, "WriteProbing", "File is currently in use")
    /\ UNCHANGED <<callVars, win, req, local, fs, dir, locked, disk_full>>

\* The rows and columns the call is working on: the partners of a combined
\* report once its invoices are done, the request's data otherwise.
CurData(p) == IF local[p].part = "partners" THEN req[p].data2 ELSE req[p].data
CurColumns(p) == IF local[p].part = "partners" THEN req[p].columns2 ELSE req[p].columns
CurSheetName(p) ==
    IF req[p].kind = "combined"
    THEN (IF local[p].part = "partners" THEN "Terceros" ELSE "Facturas")
    ELSE SheetName(req[p].kind)

\* _create_styled_workbook, lines 55-60
GenFormat(p) ==
    /\ pc[p] = "format"
    /\ local' = [local EXCEPT ![p].df = FormatFrame(CurData(p), CurColumns(p))]
    /\ hist' = Executed(hist, p, "Formatting")
    /\ Then(p, "format")
    /\ UNCHANGED <<callVars, win, req, outcome, fs, dir, locked, disk_full>>

\* _create_styled_workbook, lines 63-121.  A combined report keeps its own
\* workbook and holds the styled sheet aside until _add_sheet.
GenRender(p) ==
    /\ pc[p] = "render"
    /\ IF Renderable(local[p].df)
       THEN /\ local' = [local EXCEPT ![p].df = <<>>,
                            ![p].wb = IF req[p].kind = "combined" THEN @
                                      ELSE <<RenderSheet(local[p].df, CurColumns(p),
                                                         CurSheetName(p))>>,
                            ![p].sheet = RenderSheet(local[p].df, CurColumns(p),
                                                     CurSheetName(p))]
            /\ hist' = Executed(hist, p, "Rendering")
            /\ Then(p, "render")
            /\ UNCHANGED outcome
       ELSE /\ Fail(hist, p, "Rendering", "ValueError")
            /\ UNCHANGED local
    /\ UNCHANGED <<callVars, win, req, fs, dir, locked, disk_full>>

\* Workbook._add_sheet accepts only a sheet whose parent is the workbook.
AddSheetAccepted(sheet_parent, workbook) == sheet_parent = workbook

\* generate_combined_report, lines 381-382 and 388-389: the active sheet of the
\* styled workbook is handed to the report's workbook.
GenAddSheet(p) ==
    /\ pc[p] = "add_sheet"
    /\ IF AddSheetAccepted("styled workbook", "report workbook")
       THEN /\ local' = [local EXCEPT ![p].wb = Append(@, local[p].sheet),
                                      ![p].part = "partners"]
            /\ hist' = Executed(hist, p, "Rendering")
            /\ Then(p, "add_sheet")
            /\ UNCHANGED outcome
       ELSE /\ Fail(hist, p, "Rendering", "ValueError")
            /\ UNCHANGED local
    /\ UNCHANGED <<callVars, win, req, fs, dir, locked, disk_full>>

\* datetime.now().strftime("%Y-%m-%d %H:%M:%S")
Clock == {"2024-02-01 10:00:00", "2024-02-01 10:00:01"}

\* self._add_metadata_sheet(wb, ...)
GenMetadata(p) ==
    /\ pc[p] = "metadata"
    /\ \E now \in Clock :
          local' = [local EXCEPT
              ![p].wb = AddMetadataSheet(@, ReportType(req[p].kind), now, req[p].start_date,
                                         req[p].end_date,
                                         Len(req[p].data) + Len(req[p].data2)),
              ![p].part = IF req[p].kind # "combined" THEN @
                          ELSE IF Len(req[p].data) > 0 THEN "invoices" ELSE "partners"]
    /\ hist' = Executed(hist, p, "Rendering")
    /\ Then(p, "metadata")
    /\ UNCHANGED <<callVars, win, req, outcome, fs, dir, locked, disk_full>>

\* wb.save(file_path): the file is opened for writing, which empties it, and the
\* archive is written into it.
GenSave(p) ==
    /\ pc[p] = "save"
    /\ LET saving == [hist EXCEPT ![p].saves = @ + 1]
       IN  IF Exists(fs, local[p].file_path) /\ local[p].file_path \in locked
           THEN /\ Fail(saving, p, "Writing", "PermissionError")
                /\ UNCHANGED fs
           ELSE IF disk_full
           THEN /\ Fail(saving, p, "Writing", "OSError")
                /\ fs' = WriteFile(fs, local[p].file_path, Truncated)
           ELSE /\ fs' = WriteFile(fs, local[p].file_path, Complete(local[p].wb))
                /\ outcome' = [outcome EXCEPT ![p] = Returned(local[p].file_path)]
                /\ hist' = [Executed(saving, p, "Writing") EXCEPT
                               ![p].trace = Append(@, "Done")]
                /\ Then(p, "save")
    /\ UNCHANGED <<callVars, win, req, local, dir, locked, disk_full>>

(***************************************************************************)
(* The rest of the machine: another process opens or closes a report file, *)
(* the disk fills up or is freed.                                          *)
(***************************************************************************)
EnvLock ==
    /\ \E f \in (DOMAIN fs \ {TestFile}) \ locked : locked' = locked \cup {f}
    /\ UNCHANGED <<callVars, win, pc, req, local, outcome, hist, fs, dir, disk_full>>
EnvUnlock ==
    /\ \E f \in locked : locked' = locked \ {f}
    /\ UNCHANGED <<callVars, win, pc, req, local, outcome, hist, fs, dir, disk_full>>
EnvDiskFills ==
    /\ ~disk_full
    /\ disk_full' = TRUE
    /\ UNCHANGED <<callVars, win, pc, req, local, outcome, hist, fs, dir, locked>>
EnvDiskFreed ==
    /\ disk_full
    /\ disk_full' = FALSE
    /\ UNCHANGED <<callVars, win, pc, req, local, outcome, hist, fs, dir, locked>>

(***************************************************************************)
(* The main window (ui/main_window.py): the Generate button and the report *)
(* runs of its worker threads.                                             *)
(***************************************************************************)
RunIds == 1..MaxRuns
\* One report run: where its thread is, the locals of _run_report_generation,
\* the state of its connection pool, the exception it caught.
NoRun == [pc |-> "unstarted", start_date |-> "", end_date |-> "",
          invoices_data |-> <<>>, partners_data |-> <<>>, queried |-> FALSE,
          pool |-> "none", generated_files |-> <<>>, error |-> ""]
\* The window after __init__ (line 231) and the creation of its widgets, the
\* dates of the period entered.
WindowAtRest ==
    [operation_running |-> FALSE, generate_button |-> "normal",
     config_button |-> "normal", status |-> "Listo", after |-> <<>>,
     start_date_var |-> "2024-01-01", end_date_var |-> "2024-01-01",
     run |-> [w \in RunIds |-> NoRun]]

(***************************************************************************)
(* Query results handed to _create_styled_workbook.                        *)
(***************************************************************************)
Text ==
    [fecha_factura |-> <<"f", "e", "c", "h", "a", "_", "f", "a", "c", "t", "u", "r", "a">>,
     fecha_upper |-> <<"F", "E", "C", "H", "A">>,
     valor |-> <<"v", "a", "l", "o", "r">>,
     id |-> <<"i", "d">>,
     ab |-> <<"a", "b">>,
     nombre |-> <<"n", "o", "m", "b", "r", "e">>,
     valor_total |-> <<"v", "a", "l", "o", "r", "_", "t", "o", "t", "a", "l">>,
     precio_upper |-> <<"P", "R", "E", "C", "I", "O">>,
     descripcion |-> <<"d", "e", "s", "c", "r", "i", "p", "c", "i", "o", "n">>,
     long_text |-> [i \in 1..60 |-> "x"],
     iso_2024_01_05 |-> <<"2", "0", "2", "4", "-", "0", "1", "-", "0", "5">>,
     iso_9999_12_31 |-> <<"9", "9", "9", "9", "-", "1", "2", "-", "3", "1">>,
     not_a_date |-> <<"n", "o", "t", "-", "a", "-", "d", "a", "t", "e">>]

\* Column lists: one column of any name, or two of the names of the queries.
ColumnLists ==
    {<<a>> : a \in {Text.fecha_factura, Text.fecha_upper, Text.valor, Text.id}}
        \cup {ab \in {<<a, b>> : a \in {Text.fecha_factura, Text.valor, Text.id},
                                 b \in {Text.fecha_factura, Text.valor, Text.id}} :
                 ab[1] # ab[2]}

\* The cells a column of the query result can hold: dates, texts and nulls
\* under a date name; amounts (zero, negative, positive), blanks and nulls
\* under an amount name; a text under a name column; numbers, texts and nulls
\* otherwise.
SamplesFor(col) ==
    IF col \in {Text.fecha_factura, Text.fecha_upper}
    THEN {None, PyStr(Text.iso_2024_01_05), PyStr(Text.iso_9999_12_31),
          PyStr(Text.not_a_date), PyDate(2023, 12, 31)}
    ELSE IF col \in {Text.valor_total, Text.precio_upper}
    THEN {None, PyStr(<<>>), PyInt(0), PyFloat(0), PyInt(7), PyInt(0 - 7), PyFloat(12345),
          PyFloat(0 - 12345)}
    ELSE IF col = Text.nombre THEN {PyStr(Text.ab)}
    ELSE IF col = Text.descripcion THEN {None, PyStr(Text.ab), PyStr(Text.long_text)}
    ELSE {None, PyInt(7), PyFloat(12345), PyStr(Text.ab)}

\* The rows of up to n tuples for a column list: every row has one cell per column.
RowsFor(columns) ==
    {r \in [1..Len(columns) -> UNION {SamplesFor(columns[j]) : j \in 1..Len(columns)}] :
        \A j \in 1..Len(columns) : r[j] \in SamplesFor(columns[j])}
RECURSIVE DataUpTo(_, _)
DataUpTo(columns, n) ==
    IF n = 0 THEN {<<>>}
    ELSE LET shorter == DataUpTo(columns, n - 1)
         IN  shorter \cup {Append(d, r) : d \in {x \in shorter : Len(x) = n - 1},
                                          r \in RowsFor(columns)}

(***************************************************************************)
(* Report requests.                                                        *)
(***************************************************************************)
RequestDates == {"2024-01-01", "2024-01-31"}
\* Query results of a report run: no rows, one invoice row, one row holding a
\* value that no cell can store.
ReportColumns == <<Text.id, Text.fecha_factura, Text.valor>>
OneRow == << <<PyStr(Text.ab), PyStr(Text.iso_2024_01_05), PyFloat(10000)>> >>
OneBadRow == << <<PyObj, PyStr(Text.iso_2024_01_05), PyFloat(10000)>> >>

\* A single-kind request has one query result, a combined request two.
Requests ==
    {r \in {[kind |-> k, start_date |-> s, end_date |-> e, data |-> d,
             columns |-> ReportColumns, data2 |-> d2,
             columns2 |-> IF k = "combined" THEN ReportColumns ELSE <<>>] :
                k \in Kinds4, s \in RequestDates, e \in RequestDates,
                d \in {<<>>, OneRow, OneBadRow}, d2 \in {<<>>, OneRow, OneBadRow}} :
        r.kind = "combined" \/ r.data2 = <<>>}

NoCall == [fn |-> "none"]

\* One caller, which constructs its generator and makes one call; the target
\* file may be there already from an earlier run, and so may a file of the
\* user's that is named test_write.tmp.
Init ==
    /\ call = NoCall
    /\ ret = Pending
    /\ \E r \in Requests : \E d \in {"missing", "uncreatable", "writable", "readonly"} :
       \E earlier \in BOOLEAN : \E notes \in BOOLEAN :
          LET reports == IF earlier
                         THEN WriteFile(NoFiles,
                                        PathJoin(OutDir,
                                                 FileName(r.kind, r.start_date, r.end_date)),
                                        OldContents)
                         ELSE NoFiles
          IN  /\ req = [p \in Procs |-> IF p = 1 THEN r ELSE NoReq]
              /\ dir = d
              /\ fs = IF d \notin {"writable", "readonly"} THEN NoFiles
                      ELSE IF notes THEN WriteFile(reports, TestFile, "notes")
                      ELSE reports
    /\ pc = [p \in Procs |-> IF p = 1 THEN "new" ELSE "off"]
    /\ local = [p \in Procs |-> NoLocal]
    /\ outcome = [p \in Procs |-> Pending]
    /\ hist = [p \in Procs |-> NoHist]
    /\ locked = {}
    /\ disk_full = FALSE
    /\ win = WindowAtRest

Next ==
    \/ \E p \in Procs : CtorCheckDir(p)
    \/ \E p \in Procs : CtorMakedirs(p)
    \/ \E p \in Procs : CtorWriteTest(p)
    \/ \E p \in Procs : CtorRemoveTest(p)
    \/ \E p \in Procs : GenCall(p)
    \/ \E p \in Procs : GenProbe(p)
    \/ \E p \in Procs : GenFormat(p)
    \/ \E p \in Procs : GenRender(p)
    \/ \E p \in Procs : GenAddSheet(p)
    \/ \E p \in Procs : GenMetadata(p)
    \/ \E p \in Procs : GenSave(p)
    \/ EnvLock
    \/ EnvUnlock
    \/ EnvDiskFills
    \/ EnvDiskFreed

Spec == Init /\ [][Next]_vars

\* Two callers with different file names, working at the same time in one
\* output directory that nothing else touches.  Each request is one that
\* succeeds when it runs alone.
InitConcurrent ==
    /\ call = NoCall
    /\ ret = Pending
    /\ \E r1 \in Requests : \E r2 \in Requests :
          /\ r1.start_date = "2024-01-01" /\ r2.start_date = "2024-01-01"
          /\ r1.end_date = "2024-01-01"
          /\ \A r \in {r1, r2} :
                IF r.kind = "combined" THEN r.data = <<>> /\ r.data2 = <<>>
                ELSE r.data \in {<<>>, OneRow}
          /\ FileName(r1.kind, r1.start_date, r1.end_date)
                # FileName(r2.kind, r2.start_date, r2.end_date)
          /\ req = [p \in Procs |-> IF p = 1 THEN r1 ELSE r2]
    /\ dir \in {"missing", "writable"}
    /\ fs = NoFiles
    /\ pc = [p \in Procs |-> "new"]
    /\ local = [p \in Procs |-> NoLocal]
    /\ outcome = [p \in Procs |-> Pending]
    /\ hist = [p \in Procs |-> NoHist]
    /\ locked = {}
    /\ disk_full = FALSE
    /\ win = WindowAtRest

NextConcurrent ==
    \/ \E p \in Procs : CtorCheckDir(p)
    \/ \E p \in Procs : CtorMakedirs(p)
    \/ \E p \in Procs : CtorWriteTest(p)
    \/ \E p \in Procs : CtorRemoveTest(p)
    \/ \E p \in Procs : GenCall(p)
    \/ \E p \in Procs : GenProbe(p)
    \/ \E p \in Procs : GenFormat(p)
    \/ \E p \in Procs : GenRender(p)
    \/ \E p \in Procs : GenMetadata(p)
    \/ \E p \in Procs : GenSave(p)

SpecConcurrent == InitConcurrent /\ [][NextConcurrent]_vars

(***************************************************************************)
(* The file name as a function of the request.  Request dates are what the *)
(* window lets through (validate_date_format): digits and '-'.             *)
(***************************************************************************)
RECURSIVE DateStringsOfLen(_)
DateStringsOfLen(n) ==
    IF n = 0 THEN {""} ELSE {s \o c : s \in DateStringsOfLen(n - 1), c \in {"1", "-"}}
DateStrings == UNION {DateStringsOfLen(n) : n \in 1..MaxDateLen}
Descriptors ==
    {[kind |-> k, start_date |-> s, end_date |-> e] :
        k \in Kinds4, s \in DateStrings, e \in DateStrings}

InitNaming ==
    /\ \E d \in Descriptors :
          call = [fn |-> "file_name", kind |-> d.kind, start_date |-> d.start_date,
                  end_date |-> d.end_date]
    /\ ret = Pending
    /\ GenUnused
    /\ win = WindowAtRest

\* The "Create filename" block of one generate_*_report call.
CallFileName ==
    /\ call.fn = "file_name"
    /\ ret.state = "pending"
    /\ ret' = Returned(FileName(call.kind, call.start_date, call.end_date))
    /\ UNCHANGED <<call, win, genVars>>

SpecNaming == InitNaming /\ [][CallFileName]_vars

InitRender ==
    /\ \E columns \in ColumnLists : \E data \in DataUpTo(columns, MaxRows) :
          call = [fn |-> "_create_styled_workbook", data |-> data, columns |-> columns,
                  sheet_name |-> "Facturas"]
    /\ ret = Pending
    /\ GenUnused
    /\ win = WindowAtRest

\* One call of _create_styled_workbook.
CallCreateStyledWorkbook ==
    /\ call.fn = "_create_styled_workbook"
    /\ ret.state = "pending"
    /\ ret' = IF Renderable(FormatFrame(call.data, call.columns))
              THEN Returned(CreateStyledWorkbook(call.data, call.columns, call.sheet_name))
              ELSE Raised("ValueError")
    /\ UNCHANGED <<call, win, genVars>>

SpecRender == InitRender /\ [][CallCreateStyledWorkbook]_vars

\* Query results with short cells, with a long header, with long texts.
InitWidth ==
    /\ \E columns \in {<<Text.id>>, <<Text.descripcion>>,
                        <<Text.fecha_factura, Text.descripcion>>} :
       \E data \in DataUpTo(columns, MaxRows) :
          call = [fn |-> "_create_styled_workbook", data |-> data, columns |-> columns,
                  sheet_name |-> "Facturas"]
    /\ ret = Pending
    /\ GenUnused
    /\ win = WindowAtRest

SpecWidth == InitWidth /\ [][CallCreateStyledWorkbook]_vars

\* Query results with a column of amounts, alone or beside a column of names.
InitCurrency ==
    /\ \E columns \in {<<Text.valor_total>>, <<Text.precio_upper>>,
                        <<Text.nombre, Text.valor_total>>} :
       \E data \in DataUpTo(columns, MaxRows) :
          call = [fn |-> "_create_styled_workbook", data |-> data, columns |-> columns,
                  sheet_name |-> "Facturas"]
    /\ ret = Pending
    /\ GenUnused
    /\ win = WindowAtRest

SpecCurrency == InitCurrency /\ [][CallCreateStyledWorkbook]_vars

\* A generator that stamps the data sheet with the time of its rendering.
ReportDocumentStamped(kind, data, columns, start_date, end_date, now) ==
    AddMetadataSheet(CreateStyledWorkbook(data, columns, SheetName(kind) \o " " \o now),
                     ReportType(kind), now, start_date, end_date, Len(data))
\* The workbook that one single-kind generate_*_report call saves (lines 183-190).
ReportDocument(kind, data, columns, start_date, end_date, now) ==
    AddMetadataSheet(CreateStyledWorkbook(data, columns, SheetName(kind)),
                     ReportType(kind), now, start_date, end_date, Len(data))

\* One report request whose workbook is built twice.
InitTwice ==
    /\ \E kind \in {"invoices", "partners", "credit_notes"} :
       \E columns \in {<<Text.fecha_upper>>, <<Text.nombre, Text.valor_total>>} :
       \E data \in DataUpTo(columns, MaxRows) :
          call = [fn |-> "generate_report", kind |-> kind, data |-> data,
                  columns |-> columns, start_date |-> "2024-01-01",
                  end_date |-> "2024-01-31"]
    /\ ret = Pending
    /\ GenUnused
    /\ win = WindowAtRest

\* The workbook of the request is built once more, at the time the clock shows.
CallBuildReport ==
    /\ call.fn = "generate_report"
    /\ Len(ret.value) < 2
    /\ \E now \in Clock :
          ret' = Returned(Append(ret.value,
                                 ReportDocument(call.kind, call.data, call.columns,
                                                call.start_date, call.end_date, now)))
    /\ UNCHANGED <<call, win, genVars>>

SpecTwice == InitTwice /\ [][CallBuildReport]_vars

(***************************************************************************)
(* The main window: clicks on Generate, the main loop, and the steps of    *)
(* _run_report_generation in its thread.                                   *)
(***************************************************************************)
windowVars == <<callVars, pc, req, local, outcome, hist, dir, locked, disk_full>>

\* A window that starts a run at every click.
AcceptsAlways(window) == TRUE
\* Whether a click on Generate gets past the button and line 710: a disabled
\* button does not invoke its command, and _generate_reports returns when
\* operation_running is set.
Accepts(window) == window.generate_button = "normal" /\ ~window.operation_running

RaiseInRun(window, w, message) ==
    [window EXCEPT !.run[w].pc = "except", !.run[w].error = message]

\* A click on Generate: _generate_reports (lines 708-724), with
\* _set_operation_state(True) and thread.start().
ClickGenerate ==
    /\ \E valid \in BOOLEAN :
          IF Accepts(win) /\ valid /\ \E w \in RunIds : win.run[w].pc = "unstarted"
          THEN LET w == CHOOSE w \in RunIds :
                            /\ win.run[w].pc = "unstarted"
                            /\ \A v \in RunIds : win.run[v].pc = "unstarted" => w <= v
               IN  win' = [win EXCEPT !.operation_running = TRUE,
                                      !.generate_button = "disabled",
                                      !.config_button = "disabled",
                                      !.status = "Generando reportes...",
                                      !.run[w].pc = "connect",
                                      !.run[w].start_date = win.start_date_var,
                                      !.run[w].end_date = win.end_date_var]
          ELSE UNCHANGED win
    /\ UNCHANGED <<windowVars, fs>>

\* The main loop runs the next callback queued with root.after(0, ...).
MainLoopAfter ==
    /\ win.after # <<>>
    /\ win' = [win EXCEPT
          !.after = Tail(@),
          !.status = CASE Head(win.after) = "error" -> "Error"
                       [] Head(win.after) = "success" -> "Reportes generados exitosamente"
                       [] OTHER -> "Listo",
          !.generate_button = IF Head(win.after) = "idle" THEN "normal" ELSE @,
          !.config_button = IF Head(win.after) = "idle" THEN "normal" ELSE @]
    /\ UNCHANGED <<windowVars, fs>>

\* Lines 737-749: load_config, DatabaseConnection(config), test_connection.
RunConnect(w) ==
    /\ win.run[w].pc = "connect"
    /\ \E result \in {"no config", "no pool", "test failed", "connected"} :
          win' = CASE result = "no config" ->
                        RaiseInRun(win, w, "No se pudo cargar la configuracion")
                   [] result = "no pool" -> RaiseInRun(win, w, "psycopg2.Error")
                   [] result = "test failed" ->
                        RaiseInRun([win EXCEPT !.run[w].pool = "open"], w, "Error de conexion")
                   [] OTHER -> [win EXCEPT !.run[w].pool = "open",
                                           !.run[w].pc = "query_invoices"]
    /\ UNCHANGED <<windowVars, fs>>

\* Lines 756-771: execute_query for the invoices, then for the partners.
RunExecuteQuery(w) ==
    /\ win.run[w].pc \in {"query_invoices", "query_partners"}
    /\ \/ win' = RaiseInRun(win, w, "Query execution error")
       \/ \E rows \in {<<>>, OneRow} :
             win' = IF win.run[w].pc = "query_invoices"
                    THEN [win EXCEPT !.run[w].invoices_data = rows,
                                     !.run[w].pc = "query_partners"]
                    ELSE [win EXCEPT !.run[w].partners_data = rows,
                                     !.run[w].queried = TRUE,
                                     !.run[w].pc = "close_pool"]
    /\ UNCHANGED <<windowVars, fs>>

\* A run that goes on to the reports whatever the queries returned.
HasDataAlways(invoices_data, partners_data) == TRUE
\* Line 777, negated: whether the run has rows to report.
HasData(invoices_data, partners_data) == invoices_data # <<>> \/ partners_data # <<>>

\* Lines 773-778: close_pool, then the check that there is data.
RunClosePool(w) ==
    /\ win.run[w].pc = "close_pool"
    /\ win' = IF HasData(win.run[w].invoices_data, win.run[w].partners_data)
              THEN [win EXCEPT !.run[w].pool = "closed", !.run[w].pc = "generate"]
              ELSE RaiseInRun([win EXCEPT !.run[w].pool = "closed"], w,
                              "No se encontraron datos para el periodo seleccionado")
    /\ UNCHANGED <<windowVars, fs>>

\* One generate_*_report call that succeeds: the files after it.
ReportWritten(files, kind, data, columns, start_date, end_date, now) ==
    WriteFile(files, PathJoin(OutDir, FileName(kind, start_date, end_date)),
              Complete(ReportDocument(kind, data, columns, start_date, end_date, now)))

\* Lines 783-815: the generator is constructed, the invoices report and the
\* partners report are generated when their query returned rows, and the
\* success is announced.  The constructor or either call may raise.
RunGenerateReports(w) ==
    /\ win.run[w].pc = "generate"
    /\ LET r == win.run[w]
           path(kind) == PathJoin(OutDir, FileName(kind, r.start_date, r.end_date))
       IN  \E raises \in {"nothing", "constructor", "invoices", "partners"} : \E now \in Clock :
              /\ raises = "invoices" => r.invoices_data # <<>>
              /\ raises = "partners" => r.partners_data # <<>>
              /\ LET invoices_file == r.invoices_data # <<>> /\ raises \in {"nothing", "partners"}
                     partners_file == r.partners_data # <<>> /\ raises = "nothing"
                     files1 == IF invoices_file
                               THEN ReportWritten(fs, "invoices", r.invoices_data, ReportColumns,
                                                  r.start_date, r.end_date, now)
                               ELSE fs
                     files2 == IF partners_file
                               THEN ReportWritten(files1, "partners", r.partners_data,
                                                  ReportColumns, r.start_date, r.end_date, now)
                               ELSE files1
                     generated == (IF invoices_file THEN <<path("invoices")>> ELSE <<>>)
                                    \o (IF partners_file THEN <<path("partners")>> ELSE <<>>)
                 IN  /\ fs' = files2
                     /\ win' = IF raises = "nothing"
                               THEN [win EXCEPT !.run[w].generated_files = generated,
                                                !.run[w].pc = "finally",
                                                !.after = Append(@, "success")]
                               ELSE RaiseInRun([win EXCEPT !.run[w].generated_files = generated],
                                               w, "Error generating report")
    /\ UNCHANGED windowVars

\* Lines 817-821: the except clause queues the error for the main loop.
RunExcept(w) ==
    /\ win.run[w].pc = "except"
    /\ win' = [win EXCEPT !.run[w].pc = "finally", !.after = Append(@, "error")]
    /\ UNCHANGED <<windowVars, fs>>

\* Line 825: self.operation_running = False
RunFinally(w) ==
    /\ win.run[w].pc = "finally"
    /\ win' = [win EXCEPT !.operation_running = FALSE, !.run[w].pc = "schedule_idle"]
    /\ UNCHANGED <<windowVars, fs>>

\* A finally clause that does not queue _set_operation_state(False).
RunScheduleIdleForgotten(w) ==
    /\ win.run[w].pc = "schedule_idle"
    /\ win' = [win EXCEPT !.run[w].pc = "returning"]
    /\ UNCHANGED <<windowVars, fs>>
\* Line 826: self.root.after(0, lambda: self._set_operation_state(False))
RunScheduleIdle(w) ==
    /\ win.run[w].pc = "schedule_idle"
    /\ win' = [win EXCEPT !.after = Append(@, "idle"), !.run[w].pc = "returning"]
    /\ UNCHANGED <<windowVars, fs>>

\* _run_report_generation returns and its thread ends.
RunReturn(w) ==
    /\ win.run[w].pc = "returning"
    /\ win' = [win EXCEPT !.run[w].pc = "ended"]
    /\ UNCHANGED <<windowVars, fs>>

\* The window at rest, with a period entered that _validate_inputs lets through.
InitWindow ==
    /\ call = NoCall
    /\ ret = Pending
    /\ GenUnused
    /\ \E period \in {<<"2024-01-01", "2024-01-01">>, <<"2024-01-01", "2024-01-31">>} :
          win = [WindowAtRest EXCEPT !.start_date_var = period[1],
                                     !.end_date_var = period[2]]

NextWindow ==
    \/ ClickGenerate
    \/ MainLoopAfter
    \/ \E w \in RunIds : RunConnect(w)
    \/ \E w \in RunIds : RunExecuteQuery(w)
    \/ \E w \in RunIds : RunClosePool(w)
    \/ \E w \in RunIds : RunGenerateReports(w)
    \/ \E w \in RunIds : RunExcept(w)
    \/ \E w \in RunIds : RunFinally(w)
    \/ \E w \in RunIds : RunScheduleIdle(w)
    \/ \E w \in RunIds : RunReturn(w)

SpecWindow == InitWindow /\ [][NextWindow]_vars

(***************************************************************************)
(* Properties of the generate_*_report calls.                              *)
(***************************************************************************)
Callers == {p \in Procs : pc[p] # "off"}
Target(p) == local[p].file_path
Trace(p) == hist[p].trace
Position(t, stage) == {i \in 1..Len(t) : t[i] = stage}

\* C1: when the probe finds the existing target held open by another process,
\* the call fails with the file-in-use error, the file is what it was when the
\* call began, and the save is never reached.
C1_LockedTargetIsKept ==
    \A p \in Callers :
        hist[p].probe_locked =>
            /\ pc[p] = "failed"
            /\ outcome[p] = Raised("File is currently in use")
            /\ Exists(fs, Target(p))
            /\ FileAt(fs, Target(p)) = FileAt(hist[p].fs_before, Target(p))
            /\ Position(Trace(p), "Writing") = {}
C1_Witness ==
    \E p \in Callers :
        /\ hist[p].probe_locked
        /\ pc[p] = "failed"
        /\ fs[Target(p)] = OldContents

\* C2: a call ends either returning the path with the complete document at it,
\* or raising with the file at the target path exactly what it was before the
\* call (absent stays absent, existing stays the same).
C2_AllOrNothing ==
    \A p \in Callers :
        /\ pc[p] = "done" =>
              /\ outcome[p] = Returned(Target(p))
              /\ FileAt(fs, Target(p)) = [exists |-> TRUE, contents |-> Complete(local[p].wb)]
        /\ pc[p] = "failed" =>
              FileAt(fs, Target(p)) = FileAt(hist[p].fs_before, Target(p))

\* C3 as stated: a request that reaches Done went through Idle, Formatting,
\* Rendering, WriteProbing, Writing, Done in that order.
C3_ProbeAfterRendering ==
    \A p \in Callers :
        pc[p] = "done" =>
            Trace(p) = <<"Idle", "Formatting", "Rendering", "WriteProbing", "Writing", "Done">>

\* C3 amended: a single-kind request that reaches Done went through Idle,
\* WriteProbing, Formatting, Rendering, Writing, Done in that order (a combined
\* request through Idle, WriteProbing, Rendering, Writing, Done): the probe is
\* the first stage and the save the last.  A failure moves to Failed, and
\* Failed is the last stage executed.
C3_ProbeFirstSaveLast ==
    \A p \in Callers :
        LET t == Trace(p)
            stages == {"Formatting", "Rendering", "Writing"}
        IN  /\ pc[p] = "done" =>
                  t = IF req[p].kind = "combined"
                      THEN <<"Idle", "WriteProbing", "Rendering", "Writing", "Done">>
                      ELSE <<"Idle", "WriteProbing", "Formatting", "Rendering", "Writing",
                             "Done">>
            /\ \A i \in 1..Len(t) :
                  /\ t[i] \in stages => (i > 2 /\ t[1] = "Idle" /\ t[2] = "WriteProbing")
                  /\ t[i] \in {"Failed", "Done"} => i = Len(t)
                  /\ t[i] = "Writing" => i >= Len(t) - 1
            /\ pc[p] = "failed" <=> (t # <<>> /\ t[Len(t)] = "Failed")
C3_Witness ==
    \E p \in Callers :
        /\ pc[p] = "done"
        /\ req[p].kind = "invoices"
        /\ Len(req[p].data) = 1

\* C4: the file written is L_<start>.xlsx when the two dates are equal and
\* L_<start>_<end>.xlsx otherwise, L the label of the report kind, directly
\* under the output directory, and the call returns that path.
ExpectedFileName(kind, start_date, end_date) ==
    LET L == CASE kind = "invoices" -> "facturas"
               [] kind = "partners" -> "terceros"
               [] kind = "credit_notes" -> "notas_credito"
               [] kind = "combined" -> "reporte_completo"
    IN  IF start_date = end_date
        THEN L \o "_" \o start_date \o ".xlsx"
        ELSE L \o "_" \o start_date \o "_" \o end_date \o ".xlsx"
C4_FileNaming ==
    \A p \in Callers :
        pc[p] = "done" =>
            LET path == "out/" \o ExpectedFileName(req[p].kind, req[p].start_date,
                                                   req[p].end_date)
            IN  /\ outcome[p] = Returned(path)
                /\ Exists(fs, path)
                /\ fs[path].saved = "complete"
                /\ DOMAIN fs \ DOMAIN hist[p].fs_before \subseteq {path}
C4_Witness ==
    \E p \in Callers :
        /\ pc[p] = "done"
        /\ req[p].kind = "credit_notes"
        /\ req[p].start_date = req[p].end_date
        /\ outcome[p].value = "out/notas_credito_2024-01-01.xlsx"

\* C5: two report descriptors that differ in kind or in a date have different
\* file names.
C5_NamesDiffer ==
    (call.fn = "file_name" /\ ret.state = "returned") =>
        \A d \in Descriptors :
            d # [kind |-> call.kind, start_date |-> call.start_date,
                 end_date |-> call.end_date]
                => FileName(d.kind, d.start_date, d.end_date) # ret.value
C5_Witness ==
    /\ call.fn = "file_name"
    /\ ret.state = "returned"
    /\ call.start_date # call.end_date
    /\ call.kind = "credit_notes"

\* C6: two requests with different file names that run at the same time in one
\* output directory both succeed, each leaving the document it built.
C6_ConcurrentRequestsSucceed ==
    \A p \in Callers :
        /\ pc[p] \notin {"no_generator", "failed"}
        /\ pc[p] = "done" =>
              FileAt(fs, Target(p)) = [exists |-> TRUE, contents |-> Complete(local[p].wb)]

(***************************************************************************)
(* Properties of _create_styled_workbook.                                  *)
(***************************************************************************)
RenderReturned == call.fn = "_create_styled_workbook" /\ ret.state = "returned"
OutSheet == ret.value[1]
InCell(i, j) == call.data[i][j]
OutCell(i, j) == OutSheet.cells[i + 1][j]
DataCells == {<<i, j>> : i \in 1..Len(call.data), j \in 1..Len(call.columns)}
NameHasFecha(col) ==
    \E i \in 1..Len(col) :
        /\ i + 4 <= Len(col)
        /\ col[i] \in {"f", "F"} /\ col[i + 1] \in {"e", "E"} /\ col[i + 2] \in {"c", "C"}
        /\ col[i + 3] \in {"h", "H"} /\ col[i + 4] \in {"a", "A"}
Tenths(x) == IF x.k = "float" THEN x.v ELSE x.v * 10
IsNumber(x) == x.k \in {"int", "int64", "float"}

\* The written cell shows the input cell: the same text, the same number, a
\* blank for a null, a text for a date.
ComesFrom(col, x, c) ==
    IF NameHasFecha(col) THEN c.value.k = "str"
    ELSE CASE x.k = "str" -> c.value = x
           [] IsNumber(x) -> IsNumber(c.value) /\ Tenths(c.value) = Tenths(x)
           [] OTHER -> c.value.k \in {"none", "nan"}

\* C7: the data sheet has one header row holding the M column names in input
\* order and then exactly N data rows of M cells, row i of the sheet coming
\* from row i of the input.
C7_ShapePreserved ==
    RenderReturned =>
        /\ Len(ret.value) = 1
        /\ Len(OutSheet.cells) = Len(call.data) + 1
        /\ \A i \in 1..Len(OutSheet.cells) : Len(OutSheet.cells[i]) = Len(call.columns)
        /\ \A j \in 1..Len(call.columns) : OutSheet.cells[1][j].value = PyStr(call.columns[j])
        /\ \A ij \in DataCells :
              ComesFrom(call.columns[ij[2]], InCell(ij[1], ij[2]), OutCell(ij[1], ij[2]))
C7_Witness ==
    /\ RenderReturned
    /\ Len(call.data) = 2 /\ Len(call.columns) = 2
    /\ call.data[1] # call.data[2]
    /\ call.columns[1] = Text.id /\ call.data[1][1] = PyStr(Text.ab)

\* C8: a non-null cell of a 'fecha' column that cannot be parsed as a date is
\* written as the empty string, and the call does not raise.
Unparseable(x) == x.k = "str" /\ ~(IsoShape(x.v) /\ ValidYmd(IsoFields(x.v)))
C8_UnparseableDateIsBlank ==
    (call.fn = "_create_styled_workbook" /\ ret.state # "pending") =>
        /\ ret.state = "returned"
        /\ \A ij \in DataCells :
              (NameHasFecha(call.columns[ij[2]]) /\ Unparseable(InCell(ij[1], ij[2])))
                  => OutCell(ij[1], ij[2]).value = PyStr(<<>>)

\* C9: a cell of a 'fecha' column holding a valid ISO YYYY-MM-DD date is
\* written as the text DD/MM/YYYY of the same date, with string cell type and
\* the text number format.
IsoDate(x) == x.k = "str" /\ IsoShape(x.v) /\ ValidYmd(IsoFields(x.v))
DayMonthYear(s) == <<s[9], s[10], "/", s[6], s[7], "/", s[1], s[2], s[3], s[4]>>
C9_IsoDateNormalized ==
    RenderReturned =>
        \A ij \in DataCells :
            (NameHasFecha(call.columns[ij[2]]) /\ IsoDate(InCell(ij[1], ij[2])))
                => /\ OutCell(ij[1], ij[2]).value = PyStr(DayMonthYear(InCell(ij[1], ij[2]).v))
                   /\ OutCell(ij[1], ij[2]).data_type = "s"
                   /\ OutCell(ij[1], ij[2]).number_format = "@"

\* C10: a cell of a column whose name does not contain 'fecha' is written with
\* the input value and its kind: null stays null, integer stays integer,
\* floating-point stays floating-point, text stays text.
SameValueAndKind(x, y) ==
    CASE x.k = "int" -> y.k \in {"int", "int64"} /\ y.v = x.v
      [] OTHER -> y = x
C10_PlainCellsPassThrough ==
    RenderReturned =>
        \A ij \in DataCells :
            ~NameHasFecha(call.columns[ij[2]])
                => SameValueAndKind(InCell(ij[1], ij[2]), OutCell(ij[1], ij[2]).value)

(***************************************************************************)
(* Properties of the saved documents.                                      *)
(***************************************************************************)
SingleKinds == {"invoices", "partners", "credit_notes"}
\* The errors of the target path: the probe or the save found the file held by
\* another process, or the disk was full at the save.
TargetPathErrors == {"File is currently in use", "PermissionError", "OSError"}
\* The value written beside a key of the metadata sheet.
MetadataValue(sheet, key) ==
    sheet.cells[CHOOSE i \in 1..Len(sheet.cells) : sheet.cells[i][1].key = key][2].val
\* The document at the target path of a call that returned.
Saved(p) == fs[Target(p)].sheets

\* C11: a single-kind call given zero rows and a non-empty column list raises
\* nothing of its own (it can fail only on the target path: file held, disk
\* full), and when it returns the saved document holds the metadata sheet with
\* record count 0 and then one data sheet that is the header row only.
C11_EmptyInputGivesHeaderOnly ==
    \A p \in Callers :
        (req[p].kind \in SingleKinds /\ req[p].data = <<>> /\ req[p].columns # <<>>) =>
            /\ pc[p] = "failed" => outcome[p].value \in TargetPathErrors
            /\ pc[p] = "done" =>
                  /\ fs[Target(p)].saved = "complete"
                  /\ Len(Saved(p)) = 2
                  /\ Saved(p)[1].title = "Informacion del Reporte"
                  /\ \E i \in 1..Len(Saved(p)[1].cells) :
                        Saved(p)[1].cells[i][1].key = "Total de Registros"
                  /\ MetadataValue(Saved(p)[1], "Total de Registros") = 0
                  /\ Len(Saved(p)[2].cells) = 1
                  /\ Len(Saved(p)[2].cells[1]) = Len(req[p].columns)
                  /\ \A j \in 1..Len(req[p].columns) :
                        Saved(p)[2].cells[1][j].value = PyStr(req[p].columns[j])
C11_Witness ==
    \E p \in Callers :
        /\ pc[p] = "done"
        /\ req[p].kind = "partners"
        /\ req[p].data = <<>>
        /\ Len(Saved(p)[2].cells) = 1

(***************************************************************************)
(* Properties of the report runs of the main window.                       *)
(***************************************************************************)
NoDataError == "No se encontraron datos para el periodo seleccionado"
\* The runs whose worker has left the try statement (past the finally clause).
Finished == {w \in RunIds : win.run[w].pc \in {"schedule_idle", "returning", "ended"}}
ReportPath(w, kind) ==
    "out/" \o ExpectedFileName(kind, win.run[w].start_date, win.run[w].end_date)

\* C12 as stated: a run whose queries both succeeded does not end in error
\* for lack of records, and when it ends without error it has produced the
\* invoices file and the partners file, whatever the number of rows.
C12_NeverRefusesForLackOfRecords ==
    \A w \in RunIds :
        win.run[w].queried =>
            /\ win.run[w].error # NoDataError
            /\ (w \in Finished /\ win.run[w].error = "") =>
                  win.run[w].generated_files
                      = <<ReportPath(w, "invoices"), ReportPath(w, "partners")>>

\* C12 amended: a run whose queries both succeeded produces a report file for
\* exactly the kinds whose query returned at least one row, invoices first;
\* when both queries returned zero rows the run ends in the no-data error
\* and produces no file, and that error arises in no other case.
C12_ReportsTheKindsWithRows ==
    \A w \in Finished :
        LET r == win.run[w]
            expected == (IF r.invoices_data # <<>> THEN <<ReportPath(w, "invoices")>> ELSE <<>>)
                          \o (IF r.partners_data # <<>> THEN <<ReportPath(w, "partners")>>
                              ELSE <<>>)
        IN  r.queried =>
                /\ r.error = NoDataError <=> (r.invoices_data = <<>> /\ r.partners_data = <<>>)
                /\ r.error = NoDataError => r.generated_files = <<>>
                /\ r.error = "" =>
                      /\ r.generated_files = expected
                      /\ \A i \in 1..Len(expected) :
                            /\ Exists(fs, expected[i])
                            /\ fs[expected[i]].saved = "complete"
C12_Witness ==
    \E w \in Finished :
        /\ win.run[w].queried
        /\ win.run[w].error = ""
        /\ win.run[w].invoices_data = <<>>
        /\ win.run[w].generated_files = <<"out/terceros_2024-01-01_2024-01-31.xlsx">>

\* The header row of a data sheet: one cell per column name, in order.
HasHeader(sheet, columns) ==
    /\ Len(sheet.cells) >= 1
    /\ Len(sheet.cells[1]) = Len(columns)
    /\ \A j \in 1..Len(columns) : sheet.cells[1][j].value = PyStr(columns[j])

\* C13: a combined call whose rows can all be stored raises nothing of its own,
\* and when it returns the saved document is the metadata sheet followed by a
\* 'Facturas' sheet and a 'Terceros' sheet, each with its header row, also
\* when the invoices rows, the partners rows or both are empty.
C13_CombinedCarriesDataSheets ==
    \A p \in Callers :
        (/\ req[p].kind = "combined"
         /\ req[p].data \in {<<>>, OneRow}
         /\ req[p].data2 \in {<<>>, OneRow}) =>
            /\ pc[p] = "failed" => outcome[p].value \in TargetPathErrors
            /\ pc[p] = "done" =>
                  /\ Len(Saved(p)) = 3
                  /\ Saved(p)[1].title = "Informacion del Reporte"
                  /\ Saved(p)[2].title = "Facturas"
                  /\ Saved(p)[3].title = "Terceros"
                  /\ HasHeader(Saved(p)[2], req[p].columns)
                  /\ HasHeader(Saved(p)[3], req[p].columns2)

\* The documents that a generate_*_report call has saved.
SavedDocuments ==
    {fs[f].sheets : f \in {g \in DOMAIN fs \ {TestFile} : fs[g].saved = "complete"}}
MetadataKeys ==
    <<"Tipo de Reporte", "Fecha de Generacion", "Fecha Inicio", "Fecha Fin",
      "Total de Registros", "Sistema", "Version">>

\* C14: in every saved document the first sheet is the metadata sheet, holding
\* exactly the seven key rows (report kind, generation timestamp, start date,
\* end date, record count, system name, version) in that order, and every
\* other sheet is a data sheet that comes after it.
C14_MetadataSheetFirst ==
    \A doc \in SavedDocuments :
        /\ Len(doc) >= 1
        /\ doc[1].title = "Informacion del Reporte"
        /\ Len(doc[1].cells) = Len(MetadataKeys)
        /\ \A i \in 1..Len(MetadataKeys) : doc[1].cells[i][1].key = MetadataKeys[i]
        /\ MetadataValue(doc[1], "Sistema") = "Extractor de Datos Odoo 17"
        /\ MetadataValue(doc[1], "Version") = "1.0"
        /\ \A i \in 2..Len(doc) :
              doc[i].title \in {"Facturas", "Terceros", "Notas de Credito"}
C14_Witness ==
    \E doc \in SavedDocuments :
        /\ Len(doc) = 2
        /\ doc[2].title = "Notas de Credito"
        /\ Len(doc[2].cells) = 2

\* The number of data rows on the data sheets of a document, from sheet i on.
RECURSIVE DataRowsFrom(_, _)
DataRowsFrom(doc, i) ==
    IF i > Len(doc) THEN 0 ELSE (Len(doc[i].cells) - 1) + DataRowsFrom(doc, i + 1)

\* C15: in every saved document the record count of the metadata sheet is the
\* number of data rows on the document's data sheets, which is the number of
\* input rows (invoices rows plus partners rows for the combined report), and
\* the start and end date values are the request's start_date and end_date.
C15_RecordCountIsTruthful ==
    \A p \in Callers :
        pc[p] = "done" =>
            /\ MetadataValue(Saved(p)[1], "Total de Registros") = DataRowsFrom(Saved(p), 2)
            /\ MetadataValue(Saved(p)[1], "Total de Registros")
                  = Len(req[p].data) + Len(req[p].data2)
            /\ MetadataValue(Saved(p)[1], "Fecha Inicio") = req[p].start_date
            /\ MetadataValue(Saved(p)[1], "Fecha Fin") = req[p].end_date
C15_Witness ==
    \E p \in Callers :
        /\ pc[p] = "done"
        /\ req[p].kind = "invoices"
        /\ req[p].start_date # req[p].end_date
        /\ Len(req[p].data) = 1
        /\ MetadataValue(Saved(p)[1], "Total de Registros") = 1

(***************************************************************************)
(* Properties of the formats and widths of a data sheet.                   *)
(***************************************************************************)
\* The amount columns of the query results: 'valor' or 'precio' in the name.
AmountColumn(col) == col \in {Text.valor, Text.valor_total, Text.precio_upper}

\* C16: in a column whose name contains 'valor' or 'precio', every data cell of
\* a numeric input value, zero and negative values included, carries the
\* number format '#,##0.00', and every cell of a null or blank input value
\* keeps the default format.
C16_AmountsCarryNumberFormat ==
    RenderReturned =>
        \A ij \in DataCells :
            AmountColumn(call.columns[ij[2]]) =>
                /\ InCell(ij[1], ij[2]).k \in {"int", "float"}
                      => OutCell(ij[1], ij[2]).number_format = "#,##0.00"
                /\ InCell(ij[1], ij[2]) \in {None, PyStr(<<>>)}
                      => OutCell(ij[1], ij[2]).number_format = "General"

(***************************************************************************)
(* Properties of the constructor and of the errors of a call.              *)
(***************************************************************************)
\* Where a caller is while its generator is being constructed, and once it
\* has a generator.
Constructing == {"new", "makedirs", "write_test", "remove_test"}
HasGenerator(p) == pc[p] \notin Constructing \cup {"off", "no_generator"}

\* C17: constructing the generator succeeds exactly when the directory exists
\* or can be created and the write probe in it succeeds.  When the creation
\* or the probe fails the constructor raises the 'no write permission' or the
\* 'cannot access directory' error and the caller has no generator.
C17_ConstructionValidatesDirectory ==
    \A p \in Callers :
        /\ pc[p] = "no_generator" =>
              /\ outcome[p].state = "raised"
              /\ outcome[p].value \in {"No write permission in directory",
                                       "Cannot access output directory"}
              /\ \/ dir \in {"uncreatable", "readonly"}
                 \/ FileAt(fs, "out/test_write.tmp") = [exists |-> TRUE, contents |-> ""]
        /\ HasGenerator(p) =>
              /\ dir = "writable"
              /\ ~Exists(fs, "out/test_write.tmp")
              /\ outcome[p].state = "raised" =>
                    outcome[p].value \notin {"No write permission in directory",
                                             "Cannot access output directory"}
        /\ dir \in {"uncreatable", "readonly"} => ~HasGenerator(p)
C17_Witness ==
    \E p \in Callers :
        /\ pc[p] = "no_generator"
        /\ dir = "uncreatable"
        /\ outcome[p] = Raised("No write permission in directory")

\* Whether the rows hold a value that no cell can store.
Unstorable(data) == \E i \in 1..Len(data) : \E j \in 1..Len(data[i]) : data[i][j] = PyObj

\* C18: within one call the target-path probe and the save are each executed
\* at most once, and a call returns a path only when no stage failed: a probe
\* that found the file held, a value that cannot be stored, a rejected sheet
\* and a failed save all end the call with an exception raised to the caller.
C18_NoRetryAndFullPropagation ==
    \A p \in Callers :
        /\ hist[p].probes <= 1
        /\ hist[p].saves <= 1
        /\ pc[p] = "failed" <=> (HasGenerator(p) /\ outcome[p].state = "raised")
        /\ pc[p] = "failed" => Position(Trace(p), "Done") = {}
        /\ outcome[p].state = "returned" =>
              /\ pc[p] = "done"
              /\ outcome[p].value = Target(p)
              /\ hist[p].probes = 1 /\ hist[p].saves = 1
              /\ ~hist[p].probe_locked
              /\ Position(Trace(p), "Failed") = {}
              /\ ~Unstorable(req[p].data) /\ ~Unstorable(req[p].data2)
              /\ fs[Target(p)].saved = "complete"
C18_Witness ==
    \E p \in Callers :
        /\ pc[p] = "failed"
        /\ outcome[p] = Raised("OSError")
        /\ hist[p].probes = 1 /\ hist[p].saves = 1

(***************************************************************************)
(* Properties of the worker threads of the main window.                    *)
(***************************************************************************)
\* The worker threads that have started and not ended, and those of them that
\* have not yet cleared operation_running.
LiveWorkers == {w \in RunIds : win.run[w].pc \notin {"unstarted", "ended"}}
InPipeline == {w \in LiveWorkers : win.run[w].pc \notin {"schedule_idle", "returning"}}

\* C19 as stated: at most one worker thread is running at any moment.
C19_OneWorkerThread == Cardinality(LiveWorkers) <= 1

\* C19 amended: at most one worker is in its pipeline (between its start and
\* the clearing of operation_running) at any moment; operation_running is set
\* exactly while one is, and the Generate button is disabled meanwhile, so a
\* click then starts nothing; any other live worker has cleared the flag and
\* queued its last callback, and has only to return.
C19_OnePipelineAtATime ==
    /\ Cardinality(InPipeline) <= 1
    /\ win.operation_running <=> InPipeline # {}
    /\ InPipeline # {} => win.generate_button = "disabled"
    /\ \A w \in LiveWorkers \ InPipeline :
          InPipeline # {} => win.run[w].pc = "returning"
C19_Witness ==
    /\ win.run[1].pc = "returning"
    /\ win.run[2].pc = "generate"
    /\ win.operation_running

(***************************************************************************)
(* Properties of two runs of one report.                                   *)
(***************************************************************************)
BuiltTwice == call.fn = "generate_report" /\ Len(ret.value) = 2

RenderedLength(c) == IF c.value.k \in {"none", "nan"} THEN 0 ELSE Len(Str(c.value))
\* The longest cell of column j of a sheet, header included.
Longest(sheet, j) ==
    CHOOSE n \in {RenderedLength(sheet.cells[i][j]) : i \in 1..Len(sheet.cells)} :
        \A i \in 1..Len(sheet.cells) : RenderedLength(sheet.cells[i][j]) <= n

\* C21: the width of every column of a data sheet is min(max(L + 2, 12), 50),
\* L the longest rendered length over the header cell and the data cells of
\* the column, so every width lies in 12..50.
C21_ColumnWidthRule ==
    RenderReturned =>
        \A j \in 1..Len(call.columns) :
            LET L == Longest(OutSheet, j)
                w == OutSheet.widths[j]
            IN  /\ w >= 12 /\ w <= 50
                /\ L + 2 <= 12 => w = 12
                /\ (L + 2 >= 12 /\ L + 2 <= 50) => w = L + 2
                /\ L + 2 >= 50 => w = 50
C21_Witness ==
    /\ RenderReturned
    /\ Len(call.columns) = 2
    /\ OutSheet.widths = <<15, 50>>
    /\ Len(call.data) = 2

(***************************************************************************)
(* QueryBuilder.validate_date_format and validate_date_range.              *)
(***************************************************************************)
\* The value of a month or day field as the regular expressions of
\* datetime.strptime read it: two digits from 01 to top, one digit from 1 to
\* 9 and, for %d alone, a space and one digit; 0 when the field does not match.
FieldValue(chars, top, spaced) ==
    IF Len(chars) = 2 /\ IsDigit(chars[1]) /\ IsDigit(chars[2])
       /\ DigitVal(chars[1]) * 10 + DigitVal(chars[2]) \in 1..top
    THEN DigitVal(chars[1]) * 10 + DigitVal(chars[2])
    ELSE IF Len(chars) = 1 /\ IsDigit(chars[1]) /\ DigitVal(chars[1]) >= 1
    THEN DigitVal(chars[1])
    ELSE IF spaced /\ Len(chars) = 2 /\ chars[1] = " " /\ IsDigit(chars[2])
            /\ DigitVal(chars[2]) >= 1
    THEN DigitVal(chars[2])
    ELSE 0

\* datetime.strptime(s, '%Y-%m-%d').date(): four digits of year, a month and
\* a day of one or two digits, nothing after them, and a date of the calendar;
\* ok is FALSE where strptime raises ValueError.
Strptime(s) ==
    IF Len(s) < 8 \/ Len(s) > 10 THEN [ok |-> FALSE]
    ELSE IF ~(\A i \in 1..4 : IsDigit(s[i])) \/ s[5] # "-" THEN [ok |-> FALSE]
    ELSE LET dash == IF s[7] = "-" THEN 7 ELSE 8
             ymd == << DigitVal(s[1]) * 1000 + DigitVal(s[2]) * 100
                         + DigitVal(s[3]) * 10 + DigitVal(s[4]),
                       FieldValue(SubSeq(s, 6, dash - 1), 12, FALSE),
                       FieldValue(SubSeq(s, dash + 1, Len(s)), 31, TRUE) >>
         IN  IF s[dash] = "-" /\ ymd[2] # 0 /\ ymd[3] # 0 /\ ValidYmd(ymd)
             THEN [ok |-> TRUE, date |-> ymd]
             ELSE [ok |-> FALSE]

\* date.toordinal(): the days from 0001-01-01, which is day 1.
ToOrdinal(ymd) ==
    LET y == ymd[1] - 1
        before == <<0, 31, 59, 90, 120, 151, 181, 212, 243, 273, 304, 334>>
    IN  y * 365 + y \div 4 - y \div 100 + y \div 400
          + before[ymd[2]] + (IF ymd[2] > 2 /\ IsLeap(ymd[1]) THEN 1 ELSE 0)
          + ymd[3]

validate_date_format(date_str) == Strptime(date_str).ok

validate_date_range(start_date, end_date, today) ==
    IF ~validate_date_format(start_date)
    THEN [valid |-> FALSE, message |-> "Invalid start date format. Use YYYY-MM-DD"]
    ELSE IF ~validate_date_format(end_date)
    THEN [valid |-> FALSE, message |-> "Invalid end date format. Use YYYY-MM-DD"]
    ELSE LET start == ToOrdinal(Strptime(start_date).date)
             end == ToOrdinal(Strptime(end_date).date)
         IN  IF start > end
             THEN [valid |-> FALSE, message |-> "Start date cannot be after end date"]
             ELSE IF start > ToOrdinal(today) \/ end > ToOrdinal(today)
             THEN [valid |-> FALSE, message |-> "Dates cannot be in the future"]
             ELSE IF end - start > 365
             THEN [valid |-> FALSE, message |-> "Date range cannot exceed 365 days"]
             ELSE [valid |-> TRUE, message |-> "Valid date range"]

\* The texts a caller passes as dates: dates of the calendar a year apart, a
\* day more than a year apart and in the future, a date without its zeros, a
\* day no month has, and a text that is no date.
DateTexts ==
    {<<"2", "0", "2", "4", "-", "0", "1", "-", "0", "1">>,
     <<"2", "0", "2", "4", "-", "0", "1", "-", "3", "1">>,
     <<"2", "0", "2", "3", "-", "0", "1", "-", "0", "1">>,
     <<"2", "0", "2", "2", "-", "1", "2", "-", "3", "1">>,
     <<"2", "0", "2", "5", "-", "0", "6", "-", "0", "1">>,
     <<"2", "0", "2", "4", "-", "1", "-", "5">>,
     <<"2", "0", "2", "4", "-", "0", "2", "-", "3", "0">>,
     <<"2", "0", "2", "4", "-", "1", "3", "-", "0", "1">>,
     Text.not_a_date, <<>>}

\* A request to validate two of the texts, on a day date.today() gives.
InitDates ==
    /\ \E start_date \in DateTexts : \E end_date \in DateTexts :
       \E today \in {<<2024, 1, 31>>, <<2024, 6, 30>>} :
          call = [fn |-> "validate_date_range", start_date |-> start_date,
                  end_date |-> end_date, today |-> today]
    /\ ret = Pending
    /\ GenUnused
    /\ win = WindowAtRest

CallValidateDateRange ==
    /\ call.fn = "validate_date_range"
    /\ ret = Pending
    /\ ret' = Returned([format |-> <<validate_date_format(call.start_date),
                                     validate_date_format(call.end_date)>>,
                        range |-> validate_date_range(call.start_date, call.end_date,
                                                      call.today)])
    /\ UNCHANGED <<call, win, genVars>>

SpecDates == InitDates /\ [][CallValidateDateRange]_vars

(***************************************************************************)
(* C22                                                                     *)
(***************************************************************************)
DatesValidated == call.fn = "validate_date_range" /\ ret.state = "returned"

\* A string that is a date of the calendar written as YYYY-MM-DD.
IsCalendarDate(s) == IsoShape(s) /\ ValidYmd(IsoFields(s))

\* The first check of the claimed order that a request fails, "" when it
\* passes them all.
FirstFailedCheck(start_date, end_date, today) ==
    LET start == ToOrdinal(IsoFields(start_date))
        end == ToOrdinal(IsoFields(end_date))
    IN  IF ~IsCalendarDate(start_date) THEN "Invalid start date format. Use YYYY-MM-DD"
        ELSE IF ~IsCalendarDate(end_date) THEN "Invalid end date format. Use YYYY-MM-DD"
        ELSE IF start > end THEN "Start date cannot be after end date"
        ELSE IF start > ToOrdinal(today) \/ end > ToOrdinal(today)
        THEN "Dates cannot be in the future"
        ELSE IF end - start > 365 THEN "Date range cannot exceed 365 days"
        ELSE ""

\* C22: validate_date_format returns True exactly for the strings that are
\* calendar dates written as YYYY-MM-DD, and validate_date_range is valid
\* exactly when both dates have that format, start is not after end, neither
\* is after today and they are at most 365 days apart; otherwise it is invalid
\* with the message of the first failed check, in the order start format, end
\* format, order, future, length.
C22_DateRangeValidation ==
    DatesValidated =>
        LET failed == FirstFailedCheck(call.start_date, call.end_date, call.today)
        IN  /\ ret.value.format[1] = IsCalendarDate(call.start_date)
            /\ ret.value.format[2] = IsCalendarDate(call.end_date)
            /\ ret.value.range.valid = (failed = "")
            /\ ~ret.value.range.valid => ret.value.range.message = failed

(***************************************************************************)
(* C28                                                                     *)
(***************************************************************************)
\* C28: in a column whose name contains 'fecha' every null input cell is
\* written as the empty string, also when the whole column is null.
C28_NullDateIsBlank ==
    RenderReturned =>
        \A ij \in DataCells :
            (NameHasFecha(call.columns[ij[2]]) /\ InCell(ij[1], ij[2]) = None)
                => OutCell(ij[1], ij[2]).value = PyStr(<<>>)

(***************************************************************************)
(* C24                                                                     *)
(***************************************************************************)
Constructed(p) == pc[p] \in {"idle", "no_generator"} /\ hist[p].dir_found # "unseen"

\* C24: constructing a generator on a directory that exists leaves the files
\* of the directory as they were found, a file named test_write.tmp included,
\* and leaves no new file, whether the construction succeeds or raises.
C24_ProbeLeavesDirectoryAsFound ==
    \A p \in Procs :
        (Constructed(p) /\ hist[p].dir_found \in {"writable", "readonly"})
            => fs = hist[p].fs_found

(***************************************************************************)
(* ConfigManager (utils/config_manager.py): the config table of config.db, *)
(* save_config, load_config and config_exists.                             *)
(***************************************************************************)
MaxSaves == 2

\* cipher_suite.encrypt(password.encode()).decode(): the token opens with the
\* random initialization vector and carries the text enciphered under it.
Encrypt(password, iv) ==
    <<DigitChars[iv + 1]>>
        \o [i \in 1..Len(password) |-> DigitChars[((DigitVal(password[i]) + iv) % 10) + 1]]
\* A load that hands out the stored token.
DecryptNothing(token) == token
\* cipher_suite.decrypt(encrypted_password.encode()).decode()
Decrypt(token) ==
    [i \in 1..(Len(token) - 1) |->
        DigitChars[((DigitVal(token[i + 1]) + 10 - DigitVal(token[1])) % 10) + 1]]

\* What the form (and the test) pass to save_config.
Configs ==
    {[host |-> "localhost", port |-> 5432, database |-> "odoo", username |-> "admin",
      password |-> <<"1", "2", "9">>],
     [host |-> "localhost", port |-> 5432, database |-> "odoo", username |-> "admin",
      password |-> <<>>],
     [host |-> "10.0.0.2", port |-> 5433, database |-> "odoo17", username |-> "odoo",
      password |-> <<"9", "9">>]}

StoredRow(id, config, encrypted, now) ==
    [id |-> id, host |-> config.host, port |-> config.port, database |-> config.database,
     username |-> config.username, password |-> encrypted, updated_at |-> now]

\* A save that inserts a row whatever the table holds.
SaveRowsInsertOnly(rows, config, encrypted, now) ==
    Append(rows, StoredRow(Len(rows) + 1, config, encrypted, now))
\* Lines 76-91: SELECT id FROM config LIMIT 1, then UPDATE ... WHERE id = ? when
\* there is a row and INSERT when there is none.
SaveRows(rows, config, encrypted, now) ==
    IF rows # <<>>
    THEN [i \in 1..Len(rows) |->
             IF rows[i].id = rows[1].id THEN StoredRow(rows[i].id, config, encrypted, now)
             ELSE rows[i]]
    ELSE Append(rows, StoredRow(Len(rows) + 1, config, encrypted, now))

\* load_config: the row of SELECT ... ORDER BY updated_at DESC LIMIT 1 with
\* its password decrypted, the empty dict for an empty table.
load_config(rows) ==
    IF rows = <<>> THEN [k \in {} |-> ""]
    ELSE LET row == rows[CHOOSE i \in 1..Len(rows) :
                            \A j \in 1..Len(rows) : rows[j].updated_at <= rows[i].updated_at]
         IN  [host |-> row.host, port |-> row.port, database |-> row.database,
              username |-> row.username, password |-> Decrypt(row.password)]

\* After ConfigManager(): _init_database has created config.db with an empty
\* config table.  call.saves lists the save_config calls made so far.
InitConfig ==
    /\ call = [fn |-> "ConfigManager", saves |-> <<>>]
    /\ ret = Pending
    /\ pc = [p \in Procs |-> "off"]
    /\ req = [p \in Procs |-> NoReq]
    /\ local = [p \in Procs |-> NoLocal]
    /\ outcome = [p \in Procs |-> Pending]
    /\ hist = [p \in Procs |-> NoHist]
    /\ fs = WriteFile(NoFiles, "config.db", [config |-> <<>>])
    /\ dir = "writable"
    /\ locked = {}
    /\ disk_full = FALSE
    /\ win = WindowAtRest

\* save_config(host, port, database, username, password).  The statements run
\* in one transaction; when sqlite raises (the disk is full, or another
\* process holds the write lock of the file) nothing is committed and the
\* call returns False.
CallSaveConfig ==
    /\ call.fn \in {"ConfigManager", "save_config", "load_config", "config_exists"}
    /\ Len(call.saves) < MaxSaves
    /\ \E config \in Configs : \E iv \in 1..2 : \E tick \in 0..1 :
          LET rows == fs["config.db"].config
              now == (IF rows = <<>> THEN 0 ELSE rows[Len(rows)].updated_at) + tick
              raises == disk_full \/ "config.db" \in locked
          IN  /\ fs' = IF raises THEN fs
                       ELSE WriteFile(fs, "config.db",
                                      [config |-> SaveRows(rows, config,
                                                           Encrypt(config.password, iv), now)])
              /\ call' = [fn |-> "save_config",
                          saves |-> Append(call.saves, [config |-> config, ok |-> ~raises])]
              /\ ret' = Returned(~raises)
    /\ UNCHANGED <<win, pc, req, local, outcome, hist, dir, locked, disk_full>>

CallLoadConfig ==
    /\ call.fn \in {"ConfigManager", "save_config", "load_config", "config_exists"}
    /\ call' = [call EXCEPT !.fn = "load_config"]
    /\ ret' = Returned(load_config(fs["config.db"].config))
    /\ UNCHANGED <<win, genVars>>

\* config_exists: SELECT COUNT(*) FROM config is above zero.
CallConfigExists ==
    /\ call.fn \in {"ConfigManager", "save_config", "load_config", "config_exists"}
    /\ call' = [call EXCEPT !.fn = "config_exists"]
    /\ ret' = Returned(Len(fs["config.db"].config) > 0)
    /\ UNCHANGED <<win, genVars>>

SpecConfig ==
    InitConfig /\ [][CallSaveConfig \/ CallLoadConfig \/ CallConfigExists
                       \/ EnvLock \/ EnvUnlock \/ EnvDiskFills \/ EnvDiskFreed]_vars

(***************************************************************************)
(* C23, C29                                                                *)
(***************************************************************************)
ConfigRows == fs["config.db"].config
SomeSaveSucceeded == \E i \in 1..Len(call.saves) : call.saves[i].ok
LastSucceeded == call.saves # <<>> /\ call.saves[Len(call.saves)].ok
LastSaved == call.saves[Len(call.saves)].config

WorkerFinished(w) == win.run[w].pc \in {"returning", "ended"}

\* C25: when the worker of a report run finishes, the connection pool the run
\* opened has been closed, whatever made the run end.
C25_PoolClosedOnEveryPath ==
    \A w \in RunIds : WorkerFinished(w) => win.run[w].pool \in {"none", "closed"}

(***************************************************************************)
(* The main window with its threads scheduled: whenever a worker thread    *)
(* can go on to its next statement (the connection and the queries are     *)
(* bounded by connect_timeout and statement_timeout) or the main loop has  *)
(* a callback queued with root.after, one of them eventually takes its     *)
(* step.  Clicks are not forced.                                           *)
(***************************************************************************)
RunStep(w) ==
    \/ RunConnect(w) \/ RunExecuteQuery(w) \/ RunClosePool(w) \/ RunGenerateReports(w)
    \/ RunExcept(w) \/ RunFinally(w) \/ RunScheduleIdle(w) \/ RunReturn(w)

\* The window at rest with a single day entered as the period.
InitWindowFair == InitWindow /\ win.start_date_var = win.end_date_var

SpecWindowFair ==
    /\ InitWindowFair
    /\ [][NextWindow]_vars
    /\ WF_vars(MainLoopAfter \/ \E w \in RunIds : RunStep(w))

(***************************************************************************)
(* C26                                                                     *)
(***************************************************************************)
ButtonsAre(state) == win.generate_button = state /\ win.config_button = state

\* C26: whenever operation_running is True the Generate and Configure buttons
\* are disabled; the buttons are enabled only when no run is between its start
\* and its finally clause; and the busy state a started run sets always leads
\* to a state in which operation_running is False and both buttons are
\* enabled again.
C26_BusyStateEnds ==
    /\ [](win.operation_running => ButtonsAre("disabled"))
    /\ [](ButtonsAre("normal") =>
            \A w \in RunIds : win.run[w].pc \in {"unstarted", "returning", "ended"})
    /\ win.operation_running ~> (~win.operation_running /\ ButtonsAre("normal"))
C26_Witness ==
    /\ \E w \in RunIds : win.run[w].pc = "ended" /\ win.run[w].error # ""
    /\ \E w \in RunIds : win.run[w].pc = "ended" /\ win.run[w].error = ""
    /\ ~win.operation_running /\ ButtonsAre("normal")
    /\ win.after = <<>>

(***************************************************************************)
(* DatabaseConnection (database/connection.py): the connection pool,       *)
(* get_connection and execute_query, for the one thread that uses the      *)
(* object.  A connection is "open" or "closed"; call.connection is the     *)
(* local of get_connection.                                                *)
(***************************************************************************)
min_connections == 1

\* A pool that keeps a closed connection among the used ones.
PutconnOpenOnly(connection_pool, connection) ==
    IF connection = "open"
    THEN [connection_pool EXCEPT !.idle = IF Len(@) < min_connections
                                            THEN Append(@, connection) ELSE @,
                                 !.used = @ - 1]
    ELSE connection_pool
\* ThreadedConnectionPool.putconn: an open connection goes back among the idle
\* ones while these are fewer than min_connections, any other is discarded;
\* either way it is no longer in use.
Putconn(connection_pool, connection) ==
    [connection_pool EXCEPT
        !.idle = IF Len(@) < min_connections /\ connection = "open"
                 THEN Append(@, connection) ELSE @,
        !.used = @ - 1]

\* After DatabaseConnection(config): the pool holds its first connection.
InitPool ==
    /\ call = [fn |-> "execute_query", pc |-> "idle", query |-> "", fetch_results |-> TRUE,
               connection |-> "None", error |-> "", results |-> <<>>,
               taken |-> 0, returned |-> 0,
               connection_pool |-> [idle |-> <<"open">>, used |-> 0, closed |-> FALSE]]
    /\ ret = Pending
    /\ GenUnused
    /\ win = WindowAtRest

\* execute_query(query, params, fetch_results) enters the with-block:
\* get_connection up to its yield (lines 93-102).  getconn hands out an idle connection or opens a new one, and
\* raises when the pool is closed or the server cannot be reached.
QueryGetConnection ==
    /\ call.pc = "idle"
    /\ ret' = Pending
    /\ \E query \in {"invoices", "partners"} : \E fetch_results \in BOOLEAN :
       \E connects \in BOOLEAN :
          LET enter == [call EXCEPT !.query = query, !.fetch_results = fetch_results,
                                    !.connection = "None",
                                    !.error = "", !.results = <<>>,
                                    !.taken = 0, !.returned = 0]
              idle == call.connection_pool.idle
          IN  call' =
                IF call.connection_pool.closed
                THEN [enter EXCEPT !.error = "PoolError", !.pc = "except"]
                ELSE IF idle = <<>> /\ ~connects
                THEN [enter EXCEPT !.error = "OperationalError", !.pc = "except"]
                ELSE LET connection == IF idle = <<>> THEN "open" ELSE idle[Len(idle)]
                         got == [enter EXCEPT
                                    !.connection = connection, !.taken = 1,
                                    !.connection_pool.idle =
                                        IF idle = <<>> THEN idle
                                        ELSE SubSeq(idle, 1, Len(idle) - 1),
                                    !.connection_pool.used = @ + 1]
                     IN  IF connection = "closed"
                         THEN [got EXCEPT !.error = "OperationalError", !.pc = "except"]
                         ELSE [got EXCEPT !.pc = "body"]
    /\ UNCHANGED <<win, genVars>>

\* The body of the with-block (lines 131-150): the statements run and the
\* rows are fetched, or a statement raises, with the connection still open or
\* lost.
QueryBody ==
    /\ call.pc = "body"
    /\ \/ \E rows \in {<<>>, OneRow} :
             call' = [call EXCEPT !.results = IF call.fetch_results THEN rows ELSE <<>>,
                                  !.pc = "finally"]
       \/ \E error \in {"ProgrammingError", "Exception"} :
             call' = [call EXCEPT !.error = error, !.pc = "except"]
       \/ call' = [call EXCEPT !.error = "OperationalError", !.connection = "closed",
                               !.pc = "except"]
    /\ UNCHANGED <<ret, win, genVars>>

\* The except clauses of get_connection (lines 104-113): rollback when a
\* connection was taken, which raises InterfaceError on a closed connection,
\* then the exception goes on.
QueryExcept ==
    /\ call.pc = "except"
    /\ call' = [call EXCEPT !.error = IF call.connection = "closed" THEN "InterfaceError"
                                      ELSE @,
                            !.pc = "finally"]
    /\ UNCHANGED <<ret, win, genVars>>

\* The finally clause (lines 114-116) and the end of execute_query.
QueryFinally ==
    /\ call.pc = "finally"
    /\ call' = IF call.connection = "None" THEN [call EXCEPT !.pc = "idle"]
               ELSE [call EXCEPT
                        !.connection_pool = Putconn(call.connection_pool, call.connection),
                        !.returned = @ + 1,
                        !.pc = "idle"]
    /\ ret' = IF call.error = "" THEN Returned(call.results) ELSE Raised(call.error)
    /\ UNCHANGED <<win, genVars>>

\* close_pool (lines 160-164) between two queries.
ClosePool ==
    /\ call.fn = "execute_query" /\ call.pc = "idle"
    /\ ~call.connection_pool.closed
    /\ call' = [call EXCEPT !.connection_pool.idle = <<>>, !.connection_pool.closed = TRUE]
    /\ UNCHANGED <<ret, win, genVars>>

\* A connection kept in the pool is closed while nobody uses it.
EnvConnectionCloses ==
    /\ call.fn = "execute_query" /\ call.pc = "idle"
    /\ \E i \in 1..Len(call.connection_pool.idle) :
          /\ call.connection_pool.idle[i] = "open"
          /\ call' = [call EXCEPT !.connection_pool.idle[i] = "closed"]
    /\ UNCHANGED <<ret, win, genVars>>

SpecPool ==
    InitPool /\ [][QueryGetConnection \/ QueryBody \/ QueryExcept \/ QueryFinally
                     \/ ClosePool \/ EnvConnectionCloses]_vars

(***************************************************************************)
(* C27                                                                     *)
(***************************************************************************)
\* C27: a connection that get_connection takes from the pool is given back
\* exactly once by the end of the with-block, whether the body completes,
\* the body raises or the connection is found closed; between execute_query
\* calls no connection is in use.
C27_NoConnectionLeaked ==
    /\ call.returned <= call.taken
    /\ call.connection_pool.used = call.taken - call.returned
    /\ call.pc = "idle" =>
          /\ call.returned = call.taken
          /\ call.connection_pool.used = 0
C27_Witness ==
    /\ call.pc = "idle"
    /\ ret = Raised("InterfaceError")
    /\ call.taken = 1 /\ call.returned = 1
    /\ call.connection_pool.idle = <<>>

(***************************************************************************)
(* ConfigWindow (ui/config_window.py): one window object, its 'Test        *)
(* connection' button, closing and showing it again, and the threads of    *)
(* _run_connection_test.  call.thread[t] is where test thread t is;        *)
(* call.after holds the callbacks queued with window.after.                *)
(***************************************************************************)
MaxTests == 2

\* After ConfigWindow(parent, config_manager).show().
InitConfigWindow ==
    /\ call = [fn |-> "ConfigWindow", window |-> "shown", connection_test_running |-> FALSE,
               test_button |-> "normal", save_button |-> "normal", after |-> <<>>,
               thread |-> [t \in 1..MaxTests |-> "unstarted"]]
    /\ ret = Pending
    /\ GenUnused
    /\ win = WindowAtRest

\* show (lines 66-73): an existing window is raised, otherwise a new one is
\* created, with new buttons.
ShowConfigWindow ==
    /\ call.fn = "ConfigWindow"
    /\ call' = IF call.window = "shown" THEN call
               ELSE [call EXCEPT !.window = "shown", !.test_button = "normal",
                                 !.save_button = "normal"]
    /\ UNCHANGED <<ret, win, genVars>>

\* A click on 'Test connection': _test_connection (lines 321-337) with
\* _set_testing_state(True).  A disabled button does not invoke it.
ClickTestConnection ==
    /\ call.fn = "ConfigWindow"
    /\ call.window = "shown" /\ call.test_button = "normal"
    /\ \E t \in 1..MaxTests :
          /\ call.thread[t] = "unstarted"
          /\ \A u \in 1..MaxTests : call.thread[u] = "unstarted" => t <= u
          /\ \E valid \in BOOLEAN :
                call' = IF call.connection_test_running \/ ~valid THEN call
                        ELSE [call EXCEPT !.connection_test_running = TRUE,
                                          !.test_button = "disabled",
                                          !.save_button = "disabled",
                                          !.thread[t] = "try"]
    /\ UNCHANGED <<ret, win, genVars>>

\* _on_close (lines 415-427): with a test running the user is asked, and on
\* yes the flag is cleared; then the window is destroyed.
CloseConfigWindow ==
    /\ call.fn = "ConfigWindow"
    /\ call.window = "shown"
    /\ \E yes \in BOOLEAN :
          call' = IF call.connection_test_running /\ ~yes THEN call
                  ELSE [call EXCEPT !.connection_test_running = FALSE, !.window = "None"]
    /\ UNCHANGED <<ret, win, genVars>>

\* The main loop runs the next callback queued with window.after; on a
\* destroyed window the callback fails on its widgets.
ConfigLoopAfter ==
    /\ call.fn = "ConfigWindow"
    /\ call.after # <<>>
    /\ call' = IF call.window = "shown" /\ Head(call.after) = "_set_testing_state"
               THEN [call EXCEPT !.after = Tail(@), !.test_button = "normal",
                                 !.save_button = "normal"]
               ELSE [call EXCEPT !.after = Tail(@)]
    /\ UNCHANGED <<ret, win, genVars>>

\* The try and except clauses of _run_connection_test (lines 341-358): the
\* status callbacks are queued around the connection test, or, when the test
\* raises, by the except clause.  self.window.after raises when the window is
\* gone, and the thread goes on to the finally clause either way.
TestRun(t) ==
    /\ call.fn = "ConfigWindow"
    /\ call.thread[t] \in {"try", "test", "except"}
    /\ \/ /\ call.thread[t] = "try"
          /\ call' = IF call.window = "None" THEN [call EXCEPT !.thread[t] = "except"]
                     ELSE [call EXCEPT !.after = Append(@, "_update_status"),
                                       !.thread[t] = "test"]
       \/ /\ call.thread[t] = "test"
          /\ \E raises \in BOOLEAN :
                call' = IF raises \/ call.window = "None"
                        THEN [call EXCEPT !.thread[t] = "except"]
                        ELSE [call EXCEPT !.after = Append(@, "_update_status"),
                                          !.thread[t] = "finally"]
       \/ /\ call.thread[t] = "except"
          /\ call' = IF call.window = "None" THEN [call EXCEPT !.thread[t] = "finally"]
                     ELSE [call EXCEPT !.after = Append(@, "_update_status"),
                                       !.thread[t] = "finally"]
    /\ UNCHANGED <<ret, win, genVars>>

\* The finally clause (lines 360-362): _set_testing_state(False) is queued and
\* then the flag is cleared; when the window is gone line 361 raises and the
\* thread ends without reaching line 362.
TestFinally(t) ==
    /\ call.fn = "ConfigWindow"
    /\ \/ /\ call.thread[t] = "finally"
          /\ call' = IF call.window = "None" THEN [call EXCEPT !.thread[t] = "ended"]
                     ELSE [call EXCEPT !.after = Append(@, "_set_testing_state"),
                                       !.thread[t] = "clear_flag"]
       \/ /\ call.thread[t] = "clear_flag"
          /\ call' = [call EXCEPT !.connection_test_running = FALSE, !.thread[t] = "ended"]
    /\ UNCHANGED <<ret, win, genVars>>

SpecConfigWindow ==
    InitConfigWindow
        /\ [][ShowConfigWindow \/ ClickTestConnection \/ CloseConfigWindow \/ ConfigLoopAfter
                \/ (\E t \in 1..MaxTests : TestRun(t))
                \/ (\E t \in 1..MaxTests : TestFinally(t))]_vars

(***************************************************************************)
(* C30                                                                     *)
(***************************************************************************)
TestsRunning == {t \in 1..MaxTests : call.thread[t] \notin {"unstarted", "ended"}}

\* C30: at most one connection-test thread of a configuration window is
\* running at any time, and connection_test_running is True exactly while
\* one is.
C30_OneConnectionTestInFlight ==
    /\ Cardinality(TestsRunning) <= 1
    /\ call.connection_test_running <=> TestsRunning # {}

====
